---- MODULE Spec2Model ----
(***************************************************************************)
(* Statement-to-transaction extraction engine: the Amex, SVB and Bradesco  *)
(* extractors and the cardholder name normalizer.                          *)
(*                                                                         *)
(* Text is a sequence of one-character strings.  Characters outside ASCII  *)
(* are written as named characters (EnDash, MinusSign, Diamond, Nbsp and   *)
(* the accented letters).  Amounts are integers counting hundredths (25.00 *)
(* is 2500), exchange rates integers counting ten-thousandths.             *)
(* An optional value is a sequence: <<>> is None, <<v>> is the value v.    *)
(***************************************************************************)
EXTENDS Integers, Sequences, FiniteSets, TLC

VARIABLES
    alias_added,     \* name_normalizer: entries add_alias wrote into NAME_ALIASES at run time
    name_arg,        \* name_normalizer: the argument of the normalize_name calls
    name_op,         \* name_normalizer: the last call of the module, its arguments and result
    name_first,      \* history: None, or <<table, result>> of the first normalize_name call
    pending_tx,      \* extract_svb: the records read since the last cardholder total line
    pc,              \* position of the running extraction: "scan", "done", ...
    lines,           \* the document: the text lines of all pages, in order
    i,               \* extract_amex: index of the line the scan loop is at (1-based)
    skip_mode,       \* extract_amex: "None", "fees" or "interest"
    current_holder,  \* extract_amex: None or the title-cased name of the open section
    all_cardholders, \* extract_amex, extract_svb: the dict holder -> records, in insertion order
    transactions,    \* the returned "transactions" list
    cardholders,     \* the returned "cardholders" list (a set where the source builds it from a set)
    trace,           \* history: one entry per iteration of the extract_amex scan loop
    blob,            \* the text handed to extract_amount_and_clean
    svb_line,        \* the line handed to parse_transaction_line
    amex_out,        \* None, or <<r>> once extract_amount_and_clean returned r
    svb_out,         \* None, or <<r>> once parse_transaction_line returned r
    year,            \* extract_bradesco: None, or <<y>> once the statement year is known
    holder,          \* extract_bradesco: the cardholder name
    txs,             \* extract_bradesco: the parsed rows, before the exchange rate is applied
    tx_n,            \* extract_bradesco: index of the row the rate loop is at (1-based)
    data_iso,        \* get_cotacao_dolar_ptax: its argument data_iso
    fx_cache,        \* the cache dict, as a set of <<data_iso, None or <<rate>>>>
    dt,              \* get_cotacao_dolar_ptax: the date the walk is at
    attempt,         \* get_cotacao_dolar_ptax: iterations of the walk completed
    walk,            \* history: the requests of the current call and their answers
    fx_result,       \* the value the last call of get_cotacao_dolar_ptax returned
    requests,        \* history: the number of requests sent to the rate service so far
    runs,            \* concurrent extract_bradesco invocations: the position of each
    fx_caches,       \* concurrent extract_bradesco invocations: the dicts fx_cache names
    header_out,      \* None, or <<r>> once is_cardholder_header(lines, i) returned r
    brl_tok,         \* the token handed to parse_brl_number
    brl_out          \* None, or <<r>> once parse_brl_number returned r

nameVars == <<alias_added, name_arg, name_op, name_first>>
svbVars == <<pending_tx>>
runVars == <<runs, fx_caches>>
callVars == <<header_out, brl_tok, brl_out>>
amexVars == <<lines, i, skip_mode, current_holder, all_cardholders, transactions, cardholders,
              trace>>
amountVars == <<blob, svb_line, amex_out, svb_out>>
bradescoVars == <<year, holder, txs, tx_n>>
ptaxVars == <<data_iso, fx_cache, dt, attempt, walk, fx_result>>

(***************************************************************************)
(* Characters and strings (Python str methods used by the source)          *)
(***************************************************************************)
EnDash == "EN_DASH"
MinusSign == "MINUS_SIGN"
Diamond == "DIAMOND"
Nbsp == "NBSP"
CCedilla == "c_cedilla"
ECirc == "e_circumflex"
OAcute == "o_acute"
CCedillaUp == "C_CEDILLA"
ECircUp == "E_CIRCUMFLEX"
OAcuteUp == "O_ACUTE"
AccentLower == <<CCedilla, ECirc, OAcute>>
AccentUpper == <<CCedillaUp, ECircUp, OAcuteUp>>

UpperCase == <<"A","B","C","D","E","F","G","H","I","J","K","L","M",
               "N","O","P","Q","R","S","T","U","V","W","X","Y","Z">>
LowerCase == <<"a","b","c","d","e","f","g","h","i","j","k","l","m",
               "n","o","p","q","r","s","t","u","v","w","x","y","z">>
Digits == <<"0","1","2","3","4","5","6","7","8","9">>

None == <<>>
Some(v) == <<v>>

Range(s) == {s[k] : k \in DOMAIN s}

UpperSet == Range(UpperCase)
LowerSet == Range(LowerCase)
DigitSet == Range(Digits)
\* str.isspace / regex \s
SpaceSet == {" ", Nbsp}
\* regex \w
AccentLowerSet == Range(AccentLower)
AccentUpperSet == Range(AccentUpper)
WordSet == UpperSet \cup LowerSet \cup DigitSet \cup {"_"} \cup AccentLowerSet \cup AccentUpperSet

IsUpper(c) == c \in UpperSet
IsLower(c) == c \in LowerSet \/ c \in AccentLowerSet
IsLetter(c) == IsUpper(c) \/ IsLower(c) \/ c \in AccentUpperSet
IsDigit(c) == c \in DigitSet
IsSpace(c) == c \in SpaceSet
IsWordChar(c) == c \in WordSet

\* str.upper, str.lower on one character
UpperOf == [c \in LowerSet |-> UpperCase[CHOOSE k \in DOMAIN LowerCase : LowerCase[k] = c]]
LowerOf == [c \in UpperSet |-> LowerCase[CHOOSE k \in DOMAIN UpperCase : UpperCase[k] = c]]
AccentUpperOf == [c \in AccentLowerSet |-> AccentUpper[CHOOSE k \in DOMAIN AccentLower : AccentLower[k] = c]]
AccentLowerOf == [c \in AccentUpperSet |-> AccentLower[CHOOSE k \in DOMAIN AccentUpper : AccentUpper[k] = c]]
ToUpper(c) ==
    IF c \in LowerSet THEN UpperOf[c] ELSE IF c \in AccentLowerSet THEN AccentUpperOf[c] ELSE c
ToLower(c) ==
    IF c \in UpperSet THEN LowerOf[c] ELSE IF c \in AccentUpperSet THEN AccentLowerOf[c] ELSE c

Upper(s) == [k \in DOMAIN s |-> ToUpper(s[k])]
Lower(s) == [k \in DOMAIN s |-> ToLower(s[k])]

\* int(c) for a digit character, and its inverse
ValueOf == [c \in DigitSet |-> (CHOOSE k \in DOMAIN Digits : Digits[k] = c) - 1]
DigitVal(c) == ValueOf[c]
DigitChar(n) == Digits[n + 1]

\* s[a:b] with 1-based inclusive positions; empty when a > b
Sub(s, a, b) == IF a > b THEN <<>> ELSE SubSeq(s, a, b)

\* number of leading / trailing characters of s that belong to set cs
RECURSIVE LeadIn(_, _, _)
LeadIn(s, cs, k) == IF k <= Len(s) /\ s[k] \in cs THEN LeadIn(s, cs, k + 1) ELSE k - 1
RECURSIVE TrailIn(_, _, _)
TrailIn(s, cs, k) == IF k >= 1 /\ s[k] \in cs THEN TrailIn(s, cs, k - 1) ELSE k + 1

\* str.strip(chars)
StripChars(s, cs) == Sub(s, LeadIn(s, cs, 1) + 1, TrailIn(s, cs, Len(s)) - 1)

\* str.strip()
Strip(s) == StripChars(s, SpaceSet)

\* str.replace(c, r) for a single character c and a replacement string r
RECURSIVE ReplaceChar(_, _, _)
ReplaceChar(s, c, r) ==
    IF \A k \in DOMAIN s : s[k] # c THEN s
    ELSE (IF Head(s) = c THEN r ELSE <<Head(s)>>) \o ReplaceChar(Tail(s), c, r)

\* str.startswith(p)
StartsWith(s, p) == Len(s) >= Len(p) /\ SubSeq(s, 1, Len(p)) = p
\* str.endswith(p)
EndsWith(s, p) == Len(s) >= Len(p) /\ SubSeq(s, Len(s) - Len(p) + 1, Len(s)) = p
\* p in s
Contains(s, p) == \E k \in 1..(Len(s) - Len(p) + 1) : SubSeq(s, k, k + Len(p) - 1) = p

\* " ".join(parts)
RECURSIVE JoinSp(_)
JoinSp(parts) ==
    IF parts = <<>> THEN <<>>
    ELSE IF Len(parts) = 1 THEN parts[1]
    ELSE parts[1] \o <<" ">> \o JoinSp(Tail(parts))

\* re.sub(r"\s{2,}", " ", s)
RECURSIVE CollapseSpaces(_)
CollapseRun(s, n) ==
    IF n >= 2 THEN <<" ">> \o CollapseSpaces(Sub(s, n + 1, Len(s)))
    ELSE <<Head(s)>> \o CollapseSpaces(Tail(s))
CollapseSpaces(s) == IF s = <<>> THEN <<>> ELSE CollapseRun(s, LeadIn(s, SpaceSet, 1))

\* int(s) for a string of digits
RECURSIVE IntOf(_)
IntOf(s) == IF s = <<>> THEN 0 ELSE IntOf(Sub(s, 1, Len(s) - 1)) * 10 + DigitVal(s[Len(s)])

AllDigits(s) == \A k \in DOMAIN s : IsDigit(s[k])

(***************************************************************************)
(* float(t), for the decimal notation the amount patterns can produce:     *)
(* optional surrounding whitespace, optional '-', digits with an optional  *)
(* fraction of at most two digits.  The value is given in hundredths.      *)
(***************************************************************************)
\* the fraction digits frac as hundredths
FracCents(frac) ==
    IF Len(frac) = 2 THEN IntOf(frac) ELSE IF Len(frac) = 1 THEN IntOf(frac) * 10 ELSE 0

\* u = int digits, optionally "." and fraction digits; ni = number of int digits
UnsignedFloat(u, ni, frac) ==
    IF /\ u # <<>>
       /\ \/ ni = Len(u)
          \/ u[ni + 1] = "." /\ AllDigits(frac) /\ Len(frac) <= 2 /\ ni + Len(frac) >= 1
    THEN Some(IntOf(Sub(u, 1, ni)) * 100 + FracCents(frac))
    ELSE None

UnsignedFloatOf(u, ni) ==
    UnsignedFloat(u, ni, IF ni < Len(u) /\ u[ni + 1] = "." THEN Sub(u, ni + 2, Len(u)) ELSE <<>>)

Negated(v) == IF v = None THEN None ELSE Some(0 - v[1])

StrippedFloat(s) ==
    IF s # <<>> /\ s[1] = "-"
    THEN Negated(UnsignedFloatOf(Tail(s), LeadIn(Tail(s), DigitSet, 1)))
    ELSE UnsignedFloatOf(s, LeadIn(s, DigitSet, 1))

ParseFloat(t) == StrippedFloat(Strip(t))

(***************************************************************************)
(* extractors/amex.py: text normalizer, amount token pattern, amount       *)
(* extractor                                                               *)
(***************************************************************************)
\* normalize(s)
amex_normalize(s) ==
    Strip(ReplaceChar(ReplaceChar(ReplaceChar(s, EnDash, <<"-">>), MinusSign, <<"-">>),
                      Diamond, <<>>))

\* \d{1,3}(?:,\d{3})*(?:\.\d{2})? matched greedily at position p of s:
\* the position after the match, 0 when s has no digit at p
RECURSIVE CommaGroupsEnd(_, _)
CommaGroupsEnd(s, q) ==
    IF q + 3 <= Len(s) /\ s[q] = "," /\ IsDigit(s[q + 1]) /\ IsDigit(s[q + 2])
       /\ IsDigit(s[q + 3])
    THEN CommaGroupsEnd(s, q + 4)
    ELSE q

\* number of digits \d{1,3} takes at position p
DigitRun(s, p) ==
    IF p <= Len(s) /\ IsDigit(s[p])
    THEN IF p + 1 <= Len(s) /\ IsDigit(s[p + 1])
         THEN IF p + 2 <= Len(s) /\ IsDigit(s[p + 2]) THEN 3 ELSE 2
         ELSE 1
    ELSE 0

\* (?:\.\d{2})? at position g
DecimalsEnd(s, g) ==
    IF g + 2 <= Len(s) /\ s[g] = "." /\ IsDigit(s[g + 1]) /\ IsDigit(s[g + 2])
    THEN g + 3
    ELSE g

NumEnd(s, p) ==
    IF p <= Len(s) /\ IsDigit(s[p])
    THEN DecimalsEnd(s, CommaGroupsEnd(s, p + DigitRun(s, p)))
    ELSE 0

\* position of the first non-whitespace character at or after p (\s*)
SkipSpaces(s, p) == LeadIn(s, SpaceSet, p) + 1

\* first alternative of AMOUNT_TOKEN_RE at position p: -?\$\s*NUM
DollarTokenEnd(s, p) ==
    IF p + 1 <= Len(s) /\ s[p] = "-" /\ s[p + 1] = "$" THEN NumEnd(s, SkipSpaces(s, p + 2))
    ELSE IF p <= Len(s) /\ s[p] = "$" THEN NumEnd(s, SkipSpaces(s, p + 1))
    ELSE 0

\* second alternative of AMOUNT_TOKEN_RE at position p: \(\s*NUM\s*\)
ClosingParen(s, c) == IF c <= Len(s) /\ s[c] = ")" THEN c + 1 ELSE 0
AfterParenNumber(s, n) == IF n = 0 THEN 0 ELSE ClosingParen(s, SkipSpaces(s, n))
ParenTokenEnd(s, p) ==
    IF p <= Len(s) /\ s[p] = "(" THEN AfterParenNumber(s, NumEnd(s, SkipSpaces(s, p + 1)))
    ELSE 0

\* AMOUNT_TOKEN_RE tried at position p: the position after the match, 0 for
\* no match
FirstMatch(e1, e2) == IF e1 # 0 THEN e1 ELSE e2
AmountTokenEnd(s, p) == FirstMatch(DollarTokenEnd(s, p), ParenTokenEnd(s, p))

\* AMOUNT_TOKEN_RE.finditer(s) from position p: the matches, left to right,
\* each as <<first position, position after the match>>
RECURSIVE AmountTokenMatches(_, _)
MatchesFrom(s, p, e) ==
    IF e # 0 THEN <<<<p, e>>>> \o AmountTokenMatches(s, e) ELSE AmountTokenMatches(s, p + 1)
AmountTokenMatches(s, p) ==
    IF p > Len(s) THEN <<>> ELSE MatchesFrom(s, p, AmountTokenEnd(s, p))

\* re.fullmatch(r"\d+(?:\.\d{2})?", u), ni = number of leading digits of u
PlainNumber(u, ni) ==
    /\ ni >= 1
    /\ \/ ni = Len(u)
       \/ Len(u) = ni + 3 /\ u[ni + 1] = "." /\ IsDigit(u[ni + 2]) /\ IsDigit(u[ni + 3])

\* re.fullmatch(r"\(\s*\d+(?:\.\d{2})?\s*\)", t)
ParenNumber(t) ==
    /\ Len(t) >= 3 /\ t[1] = "(" /\ t[Len(t)] = ")"
    /\ PlainNumber(Strip(Sub(t, 2, Len(t) - 1)),
                   LeadIn(Strip(Sub(t, 2, Len(t) - 1)), DigitSet, 1))

\* clean_amount(token), from line 13 on: t is the token without $ and commas
CleanedAmount(t) ==
    IF ParenNumber(t) THEN ParseFloat(<<"-">> \o Strip(StripChars(t, {"(", ")"})))
    ELSE ParseFloat(t)

\* clean_amount(token)
amex_clean_amount(token) ==
    CleanedAmount(Strip(ReplaceChar(ReplaceChar(amex_normalize(token), "$", <<>>), ",", <<>>)))

\* extract_amount_and_clean, lines 60-65: m is the last match
CutAmount(block, m) ==
    [amount |-> amex_clean_amount(Sub(block, m[1], m[2] - 1)),
     description |->
         StripChars(CollapseSpaces(Strip(Sub(block, 1, m[1] - 1)
                                         \o Sub(block, m[2], Len(block)))),
                    {" ", "-", "|", ","})]

LastOf(matches) == matches[Len(matches)]

ExtractFrom(block, matches) ==
    IF matches = <<>> THEN [amount |-> None, description |-> block]
    ELSE CutAmount(block, LastOf(matches))

\* extract_amount_and_clean(desc_block)
extract_amount_and_clean(desc_block) ==
    ExtractFrom(amex_normalize(desc_block), AmountTokenMatches(amex_normalize(desc_block), 1))

(***************************************************************************)
(* services/name_normalizer.py                                             *)
(***************************************************************************)
CANONICAL_NAMES == <<
    <<"S","c","o","t","t"," ","S","o","b","e","l">>,
    <<"C","l","i","f","f","o","r","d"," ","S","o","b","e","l">>,
    <<"D","o","u","g"," ","S","m","i","t","h">>,
    <<"M","i","c","h","a","e","l"," ","N","i","c","k","l","a","s">>,
    <<"P","a","u","l","o"," ","P","a","s","s","o","n","i">>,
    <<"A","n","t","o","i","n","e"," ","C","o","l","a","c","o">>,
    <<"C","a","r","l","o","s"," ","C","o","s","t","a">>,
    <<"D","a","n","i","e","l"," ","S","c","h","u","l","m","a","n">>,
    <<"K","e","l","l","i"," ","S","p","a","n","g","l","e","r","-","B","a","l","l","a","r","d">>,
    <<"F","e","l","i","p","e"," ","M","e","n","d","e","s">> >>


\* The alias table as written in the source: <<variant, canonical name>>
NAME_ALIASES == {
    <<<<"s","c","o","t","t"," ","s","o","b","e","l">>,
      <<"S","c","o","t","t"," ","S","o","b","e","l">> >>,
    <<<<"s","."," ","s","o","b","e","l">>,
      <<"S","c","o","t","t"," ","S","o","b","e","l">> >>,
    <<<<"s"," ","s","o","b","e","l">>,
      <<"S","c","o","t","t"," ","S","o","b","e","l">> >>,
    <<<<"s",".","s","o","b","e","l">>,
      <<"S","c","o","t","t"," ","S","o","b","e","l">> >>,
    <<<<"s","o","b","e","l",","," ","s","c","o","t","t">>,
      <<"S","c","o","t","t"," ","S","o","b","e","l">> >>,
    <<<<"c","l","i","f","f","o","r","d"," ","s","o","b","e","l">>,
      <<"C","l","i","f","f","o","r","d"," ","S","o","b","e","l">> >>,
    <<<<"c","."," ","s","o","b","e","l">>,
      <<"C","l","i","f","f","o","r","d"," ","S","o","b","e","l">> >>,
    <<<<"c"," ","s","o","b","e","l">>,
      <<"C","l","i","f","f","o","r","d"," ","S","o","b","e","l">> >>,
    <<<<"c",".","s","o","b","e","l">>,
      <<"C","l","i","f","f","o","r","d"," ","S","o","b","e","l">> >>,
    <<<<"c","l","i","f","f"," ","s","o","b","e","l">>,
      <<"C","l","i","f","f","o","r","d"," ","S","o","b","e","l">> >>,
    <<<<"s","o","b","e","l",","," ","c","l","i","f","f","o","r","d">>,
      <<"C","l","i","f","f","o","r","d"," ","S","o","b","e","l">> >>,
    <<<<"d","o","u","g"," ","s","m","i","t","h">>,
      <<"D","o","u","g"," ","S","m","i","t","h">> >>,
    <<<<"j","o","h","n"," ","d","o","u","g","l","a","s"," ","s","m","i","t","h">>,
      <<"D","o","u","g"," ","S","m","i","t","h">> >>,
    <<<<"j","."," ","d","o","u","g","l","a","s"," ","s","m","i","t","h">>,
      <<"D","o","u","g"," ","S","m","i","t","h">> >>,
    <<<<"j"," ","d","o","u","g","l","a","s"," ","s","m","i","t","h">>,
      <<"D","o","u","g"," ","S","m","i","t","h">> >>,
    <<<<"j",".","d","o","u","g","l","a","s"," ","s","m","i","t","h">>,
      <<"D","o","u","g"," ","S","m","i","t","h">> >>,
    <<<<"j",".","d","."," ","s","m","i","t","h">>,
      <<"D","o","u","g"," ","S","m","i","t","h">> >>,
    <<<<"j",".","d"," ","s","m","i","t","h">>,
      <<"D","o","u","g"," ","S","m","i","t","h">> >>,
    <<<<"j","d"," ","s","m","i","t","h">>,
      <<"D","o","u","g"," ","S","m","i","t","h">> >>,
    <<<<"j","o","h","n"," ","d","."," ","s","m","i","t","h">>,
      <<"D","o","u","g"," ","S","m","i","t","h">> >>,
    <<<<"j","o","h","n"," ","d"," ","s","m","i","t","h">>,
      <<"D","o","u","g"," ","S","m","i","t","h">> >>,
    <<<<"d","o","u","g","l","a","s"," ","s","m","i","t","h">>,
      <<"D","o","u","g"," ","S","m","i","t","h">> >>,
    <<<<"s","m","i","t","h",","," ","j","o","h","n">>,
      <<"D","o","u","g"," ","S","m","i","t","h">> >>,
    <<<<"s","m","i","t","h",","," ","j","."," ","d","o","u","g","l","a","s">>,
      <<"D","o","u","g"," ","S","m","i","t","h">> >>,
    <<<<"s","m","i","t","h",","," ","j","o","h","n"," ","d","o","u","g","l","a","s">>,
      <<"D","o","u","g"," ","S","m","i","t","h">> >>,
    <<<<"s","m","i","t","h",","," ","d","o","u","g">>,
      <<"D","o","u","g"," ","S","m","i","t","h">> >>,
    <<<<"d","."," ","s","m","i","t","h">>,
      <<"D","o","u","g"," ","S","m","i","t","h">> >>,
    <<<<"d"," ","s","m","i","t","h">>,
      <<"D","o","u","g"," ","S","m","i","t","h">> >>,
    <<<<"m","i","c","h","a","e","l"," ","n","i","c","k","l","a","s">>,
      <<"M","i","c","h","a","e","l"," ","N","i","c","k","l","a","s">> >>,
    <<<<"m","."," ","n","i","c","k","l","a","s">>,
      <<"M","i","c","h","a","e","l"," ","N","i","c","k","l","a","s">> >>,
    <<<<"m"," ","n","i","c","k","l","a","s">>,
      <<"M","i","c","h","a","e","l"," ","N","i","c","k","l","a","s">> >>,
    <<<<"m",".","n","i","c","k","l","a","s">>,
      <<"M","i","c","h","a","e","l"," ","N","i","c","k","l","a","s">> >>,
    <<<<"m","i","k","e"," ","n","i","c","k","l","a","s">>,
      <<"M","i","c","h","a","e","l"," ","N","i","c","k","l","a","s">> >>,
    <<<<"n","i","c","k","l","a","s",","," ","m","i","c","h","a","e","l">>,
      <<"M","i","c","h","a","e","l"," ","N","i","c","k","l","a","s">> >>,
    <<<<"p","a","u","l","o"," ","p","a","s","s","o","n","i">>,
      <<"P","a","u","l","o"," ","P","a","s","s","o","n","i">> >>,
    <<<<"p","."," ","p","a","s","s","o","n","i">>,
      <<"P","a","u","l","o"," ","P","a","s","s","o","n","i">> >>,
    <<<<"p"," ","p","a","s","s","o","n","i">>,
      <<"P","a","u","l","o"," ","P","a","s","s","o","n","i">> >>,
    <<<<"p",".","p","a","s","s","o","n","i">>,
      <<"P","a","u","l","o"," ","P","a","s","s","o","n","i">> >>,
    <<<<"p","a","s","s","o","n","i",","," ","p","a","u","l","o">>,
      <<"P","a","u","l","o"," ","P","a","s","s","o","n","i">> >>,
    <<<<"a","n","t","o","i","n","e"," ","c","o","l","a","c","o">>,
      <<"A","n","t","o","i","n","e"," ","C","o","l","a","c","o">> >>,
    <<<<"a","n","t","o","i","n","e"," ","c","o","l","a",CCedilla,"o">>,
      <<"A","n","t","o","i","n","e"," ","C","o","l","a","c","o">> >>,
    <<<<"a","."," ","c","o","l","a",CCedilla,"o">>,
      <<"A","n","t","o","i","n","e"," ","C","o","l","a","c","o">> >>,
    <<<<"a","."," ","c","o","l","a","c","o">>,
      <<"A","n","t","o","i","n","e"," ","C","o","l","a","c","o">> >>,
    <<<<"a"," ","c","o","l","a",CCedilla,"o">>,
      <<"A","n","t","o","i","n","e"," ","C","o","l","a","c","o">> >>,
    <<<<"a"," ","c","o","l","a","c","o">>,
      <<"A","n","t","o","i","n","e"," ","C","o","l","a","c","o">> >>,
    <<<<"a",".","c","o","l","a",CCedilla,"o">>,
      <<"A","n","t","o","i","n","e"," ","C","o","l","a","c","o">> >>,
    <<<<"a",".","c","o","l","a","c","o">>,
      <<"A","n","t","o","i","n","e"," ","C","o","l","a","c","o">> >>,
    <<<<"c","o","l","a",CCedilla,"o",","," ","a","n","t","o","i","n","e">>,
      <<"A","n","t","o","i","n","e"," ","C","o","l","a","c","o">> >>,
    <<<<"c","o","l","a","c","o",","," ","a","n","t","o","i","n","e">>,
      <<"A","n","t","o","i","n","e"," ","C","o","l","a","c","o">> >>,
    <<<<"d","a","n"," ","s","c","h","u","l","m","a","n">>,
      <<"D","a","n","i","e","l"," ","S","c","h","u","l","m","a","n">> >>,
    <<<<"c","a","r","l","o","s"," ","c","o","s","t","a">>,
      <<"C","a","r","l","o","s"," ","C","o","s","t","a">> >>,
    <<<<"c","."," ","c","o","s","t","a">>,
      <<"C","a","r","l","o","s"," ","C","o","s","t","a">> >>,
    <<<<"c"," ","c","o","s","t","a">>,
      <<"C","a","r","l","o","s"," ","C","o","s","t","a">> >>,
    <<<<"c",".","c","o","s","t","a">>,
      <<"C","a","r","l","o","s"," ","C","o","s","t","a">> >>,
    <<<<"c","o","s","t","a",","," ","c","a","r","l","o","s">>,
      <<"C","a","r","l","o","s"," ","C","o","s","t","a">> >>,
    <<<<"k","e","l","l","i"," ","s","p","a","n","g","l","e","r","-","b","a","l","l","a","r","d">>,
      <<"K","e","l","l","i"," ","S","p","a","n","g","l","e","r","-","B","a","l","l","a","r","d">> >>,
    <<<<"k","e","l","l","i"," ","s","p","a","n","g","l","e","r","b","a","l","l","a","r","d">>,
      <<"K","e","l","l","i"," ","S","p","a","n","g","l","e","r","-","B","a","l","l","a","r","d">> >>,
    <<<<"k","e","l","l","i"," ","s","p","a","n","g","l","e","r"," ","b","a","l","l","a","r","d">>,
      <<"K","e","l","l","i"," ","S","p","a","n","g","l","e","r","-","B","a","l","l","a","r","d">> >>,
    <<<<"k","e","l","l","i"," ","s","p","a","n","g","l","e","r">>,
      <<"K","e","l","l","i"," ","S","p","a","n","g","l","e","r","-","B","a","l","l","a","r","d">> >>,
    <<<<"k","."," ","s","p","a","n","g","l","e","r">>,
      <<"K","e","l","l","i"," ","S","p","a","n","g","l","e","r","-","B","a","l","l","a","r","d">> >>,
    <<<<"k"," ","s","p","a","n","g","l","e","r">>,
      <<"K","e","l","l","i"," ","S","p","a","n","g","l","e","r","-","B","a","l","l","a","r","d">> >>,
    <<<<"k",".","s","p","a","n","g","l","e","r">>,
      <<"K","e","l","l","i"," ","S","p","a","n","g","l","e","r","-","B","a","l","l","a","r","d">> >>,
    <<<<"s","p","a","n","g","l","e","r",","," ","k","e","l","l","i">>,
      <<"K","e","l","l","i"," ","S","p","a","n","g","l","e","r","-","B","a","l","l","a","r","d">> >>,
    <<<<"s","p","a","n","g","l","e","r","b","a","l","l","a","r","d",","," ","k","e","l","l","i">>,
      <<"K","e","l","l","i"," ","S","p","a","n","g","l","e","r","-","B","a","l","l","a","r","d">> >>,
    <<<<"s","p","a","n","g","l","e","r","-","b","a","l","l","a","r","d",","," ","k","e","l","l","i">>,
      <<"K","e","l","l","i"," ","S","p","a","n","g","l","e","r","-","B","a","l","l","a","r","d">> >>,
    <<<<"f","e","l","i","p","e"," ","m","e","n","d","e","s">>,
      <<"F","e","l","i","p","e"," ","M","e","n","d","e","s">> >>,
    <<<<"f","e","l","i","p","e"," ","m"," ","s","a","n","t","o","s">>,
      <<"F","e","l","i","p","e"," ","M","e","n","d","e","s">> >>,
    <<<<"f","e","l","i","p","e"," ","m","."," ","s","a","n","t","o","s">>,
      <<"F","e","l","i","p","e"," ","M","e","n","d","e","s">> >>,
    <<<<"f","."," ","m","e","n","d","e","s">>,
      <<"F","e","l","i","p","e"," ","M","e","n","d","e","s">> >>,
    <<<<"f"," ","m","e","n","d","e","s">>,
      <<"F","e","l","i","p","e"," ","M","e","n","d","e","s">> >>,
    <<<<"f",".","m","e","n","d","e","s">>,
      <<"F","e","l","i","p","e"," ","M","e","n","d","e","s">> >>,
    <<<<"m","e","n","d","e","s",","," ","f","e","l","i","p","e">>,
      <<"F","e","l","i","p","e"," ","M","e","n","d","e","s">> >>,
    <<<<"s","a","n","t","o","s",","," ","f","e","l","i","p","e"," ","m">>,
      <<"F","e","l","i","p","e"," ","M","e","n","d","e","s">> >>,
    <<<<"s","a","n","t","o","s",","," ","f","e","l","i","p","e">>,
      <<"F","e","l","i","p","e"," ","M","e","n","d","e","s">> >> }

\* str.split(): the maximal runs of non-whitespace characters
RECURSIVE Split(_)
\* t starts with a word of n characters
SplitWord(t, n) == <<Sub(t, 1, n)>> \o Split(Sub(t, n + 1, Len(t)))
SplitStripped(t) ==
    IF t = <<>> THEN <<>> ELSE SplitWord(t, LeadIn(t, {c \in Range(t) : ~IsSpace(c)}, 1))
Split(s) == SplitStripped(Sub(s, SkipSpaces(s, 1), Len(s)))

\* str.title(): a letter is upper-cased when the character before it is not
\* a letter, lower-cased otherwise
Title(s) ==
    [k \in DOMAIN s |->
        IF k > 1 /\ IsLetter(s[k - 1]) THEN ToLower(s[k]) ELSE ToUpper(s[k])]

\* str.replace("  ", " "): one left-to-right pass over non-overlapping pairs
RECURSIVE ReplaceDoubleSpace(_)
ReplaceDoubleSpace(s) ==
    IF Len(s) < 2 THEN s
    ELSE IF s[1] = " " /\ s[2] = " " THEN <<" ">> \o ReplaceDoubleSpace(Sub(s, 3, Len(s)))
    ELSE <<s[1]>> \o ReplaceDoubleSpace(Tail(s))

CARD_SUFFIXES == << <<" ","-"," ","a","m","e","x">>,
                    <<" ","-"," ","v","i","s","a">>,
                    <<" ","-"," ","m","a","s","t","e","r","c","a","r","d">>,
                    <<" ","-"," ","m","c">>,
                    <<" ","-"," ","b","r","a","d","e","s","c","o">> >>

\* the loop over the card type suffixes, from suffix number k on
RECURSIVE RemoveSuffixes(_, _)
RemoveSuffixes(cleaned, k) ==
    IF k > Len(CARD_SUFFIXES) THEN cleaned
    ELSE IF EndsWith(cleaned, CARD_SUFFIXES[k])
         THEN RemoveSuffixes(Strip(Sub(cleaned, 1, Len(cleaned) - Len(CARD_SUFFIXES[k]))), k + 1)
         ELSE RemoveSuffixes(cleaned, k + 1)

\* NAME_ALIASES as it stands at run time: the source's entries, overwritten
\* by what add_alias stored
AliasKnown(key) ==
    \/ \E p \in alias_added : p[1] = key
    \/ \E p \in NAME_ALIASES : p[1] = key
AliasGet(key) ==
    IF \E p \in alias_added : p[1] = key
    THEN (CHOOSE p \in alias_added : p[1] = key)[2]
    ELSE (CHOOSE p \in NAME_ALIASES : p[1] = key)[2]

\* the surname heuristic: the canonical names that qualify, by position
SurnameMatches(parts) ==
    {k \in DOMAIN CANONICAL_NAMES :
        /\ EndsWith(Lower(CANONICAL_NAMES[k]), parts[Len(parts)])
        /\ StartsWith(parts[1], <<Lower(Split(CANONICAL_NAMES[k])[1])[1]>>)}

\* lines 149-163: the first qualifying canonical name, else title case
FirstMatchOrTitle(name, hits) ==
    IF hits # {} THEN CANONICAL_NAMES[CHOOSE k \in hits : \A j \in hits : k <= j]
    ELSE Title(name)

BySurname(name, parts) ==
    FirstMatchOrTitle(name, IF parts = <<>> THEN {} ELSE SurnameMatches(parts))

\* lines 144-147: the lookup without periods
ByNoPeriods(name, cleaned, no_periods) ==
    IF AliasKnown(no_periods) THEN AliasGet(no_periods) ELSE BySurname(name, Split(cleaned))

\* lines 140-147: the direct lookup
ByAlias(name, cleaned) ==
    IF AliasKnown(cleaned) THEN AliasGet(cleaned)
    ELSE ByNoPeriods(name, cleaned,
                     Strip(ReplaceDoubleSpace(ReplaceChar(cleaned, ".", <<" ">>))))

\* variant of normalize_name that keeps the letter case of the name
normalize_name_CaseKept(name) ==
    IF name = <<>> THEN name
    ELSE ByAlias(name, JoinSp(Split(RemoveSuffixes(Strip(name), 1))))
\* normalize_name(name)
normalize_name(name) ==
    IF name = <<>> THEN name
    ELSE ByAlias(name, JoinSp(Split(RemoveSuffixes(Lower(Strip(name)), 1))))

(***************************************************************************)
(* datetime: calendar dates                                                *)
(***************************************************************************)
IsLeapYear(y) == y % 4 = 0 /\ (y % 100 # 0 \/ y % 400 = 0)

DaysInMonth(y, m) ==
    IF m = 2 THEN (IF IsLeapYear(y) THEN 29 ELSE 28)
    ELSE IF m \in {4, 6, 9, 11} THEN 30 ELSE 31

\* datetime(year, month, day) does not raise ValueError
ValidDate(y, m, d) == y \in 1..9999 /\ m \in 1..12 /\ d \in 1..DaysInMonth(y, m)

\* zero-padded decimal notation of n in w digits
RECURSIVE Pad(_, _)
Pad(n, w) == IF w = 0 THEN <<>> ELSE Pad(n \div 10, w - 1) \o <<DigitChar(n % 10)>>

\* strftime("%Y-%m-%d")
FormatIso(y, m, d) == Pad(y, 4) \o <<"-">> \o Pad(m, 2) \o <<"-">> \o Pad(d, 2)

\* the century strptime gives a two-digit year (%y)
FullYear(yy) == IF yy <= 68 THEN 2000 + yy ELSE 1900 + yy

\* datetime.strptime(date_s, "%m<sep>%d<sep>%y").strftime("%Y-%m-%d") inside
\* try/except: the ISO date, or date_s itself when strptime raises
IsoOrRaw(y, m, d, date_s) == IF ValidDate(y, m, d) THEN FormatIso(y, m, d) ELSE date_s

\* variant of DateOrRaw that reads the date day first (%d/%m/%y)
DateOrRaw_DayFirst(date_s) ==
    IsoOrRaw(FullYear(IntOf(Sub(date_s, 7, 8))), IntOf(Sub(date_s, 4, 5)),
             IntOf(Sub(date_s, 1, 2)), date_s)
\* lines 117-121: strptime(date_s, "%m/%d/%y"), month first
DateOrRaw(date_s) ==
    IsoOrRaw(FullYear(IntOf(Sub(date_s, 7, 8))), IntOf(Sub(date_s, 1, 2)),
             IntOf(Sub(date_s, 4, 5)), date_s)

(***************************************************************************)
(* extractors/amex.py: line classifier                                     *)
(***************************************************************************)
FEES_START == << <<"F","E","E","S">> >>
INTEREST_START == << <<"I","N","T","E","R","E","S","T"," ","C","H","A","R","G","E","D">> >>
SECTION_END == << <<"T","O","T","A","L"," ","F","E","E","S"," ","F","O","R"," ","T","H","I","S"," ","P","E","R","I","O","D">>,
                 <<"T","O","T","A","L"," ","I","N","T","E","R","E","S","T"," ","C","H","A","R","G","E","D"," ","F","O","R"," ","T","H","I","S"," ","P","E","R","I","O","D">>,
                 <<"A","B","O","U","T"," ","T","R","A","I","L","I","N","G"," ","I","N","T","E","R","E","S","T">>,
                 <<"I","M","P","O","R","T","A","N","T"," ","N","O","T","I","C","E","S">> >>
SKIP_PREFIXES == << <<"F","O","R","E","I","G","N">>,
                   <<"S","P","E","N","D">>,
                   <<"A","M","O","U","N","T">>,
                   <<"D","E","T","A","I","L">>,
                   <<"C","O","N","T","I","N","U","E","D"," ","O","N"," ","N","E","X","T"," ","P","A","G","E">> >>

\* str.startswith(tuple of prefixes)
StartsWithAny(s, prefixes) == \E k \in DOMAIN prefixes : StartsWith(s, prefixes[k])

\* PAGE_FOOTER_RE = \bp\.\s*\d+/\d+\s*$ (IGNORECASE) matched at position k:
\* after "p." and whitespace, digits up to s - 1, "/" at s, digits up to e - 1
FooterEnd(L, s, e) == e > s + 1 /\ SkipSpaces(L, e) > Len(L)
FooterSlash(L, a, s) ==
    /\ s > a /\ s <= Len(L) /\ L[s] = "/"
    /\ FooterEnd(L, s, LeadIn(L, DigitSet, s + 1) + 1)
FooterDigits(L, a) == FooterSlash(L, a, LeadIn(L, DigitSet, a) + 1)
PageFooterAt(L, k) ==
    /\ k + 1 <= Len(L) /\ L[k] \in {"p", "P"} /\ L[k + 1] = "."
    /\ (k = 1 \/ ~IsWordChar(L[k - 1]))
    /\ FooterDigits(L, SkipSpaces(L, k + 2))

PageFooterIn(L) == \E k \in DOMAIN L : PageFooterAt(L, k)

\* is_page_footer(line)
is_page_footer(line) == PageFooterIn(amex_normalize(line))

\* re.fullmatch(r"[A-Z .'\-]+", line)
HeaderCharset(line) ==
    /\ line # <<>>
    /\ \A k \in DOMAIN line : IsUpper(line[k]) \/ line[k] \in {" ", ".", "'", "-"}

CARD_ENDING == <<"C","A","R","D"," ","E","N","D","I","N","G">>
ACCOUNT_ENDING == <<"A","C","C","O","U","N","T"," ","E","N","D","I","N","G">>
CLOSING_DATE == <<"C","L","O","S","I","N","G"," ","D","A","T","E">>

\* line 50: the following lines (at most three), normalized and joined
Lookahead(ls, n) ==
    JoinSp([k \in 1..(IF Len(ls) - n < 3 THEN Len(ls) - n ELSE 3)
               |-> amex_normalize(ls[n + k])])

\* lines 45-53, for the normalized line and the upper-cased lookahead
HeaderOrNone(line, up) ==
    IF line = <<>> \/ line # Upper(line) THEN None
    ELSE IF ~HeaderCharset(line) THEN None
    ELSE IF Contains(up, CARD_ENDING) \/ Contains(up, ACCOUNT_ENDING)
            \/ Contains(up, CLOSING_DATE)
         THEN line
    ELSE None

\* is_cardholder_header(lines, i): the normalized line, or None.  Lines are
\* numbered from 1.
is_cardholder_header(ls, n) == HeaderOrNone(amex_normalize(ls[n]), Upper(Lookahead(ls, n)))

\* DATE_RE = ^(\d{2}/\d{2}/\d{2})\s+(.*)$ matches the line
DateMatch(line) ==
    /\ Len(line) >= 9
    /\ \A k \in {1, 2, 4, 5, 7, 8} : IsDigit(line[k])
    /\ line[3] = "/" /\ line[6] = "/"
    /\ IsSpace(line[9])
\* its groups 1 and 2
DateGroup(line) == Sub(line, 1, 8)
RestGroup(line) == Sub(line, SkipSpaces(line, 9), Len(line))

(***************************************************************************)
(* extractors/amex.py: extract_amex                                        *)
(***************************************************************************)
\* dict helpers: a dict is a sequence of [holder, txs] in insertion order
HasKey(dict, key) == \E k \in DOMAIN dict : dict[k].holder = key
\* dict.setdefault(key, [])
SetDefault(dict, key) ==
    IF HasKey(dict, key) THEN dict ELSE Append(dict, [holder |-> key, txs |-> <<>>])
\* variant of AppendTo that appends to the section opened first
AppendTo_First(dict, key, tx) ==
    [k \in DOMAIN dict |-> IF k = 1 THEN [dict[k] EXCEPT !.txs = Append(@, tx)] ELSE dict[k]]
\* dict[key].append(tx)
AppendTo(dict, key, tx) ==
    [k \in DOMAIN dict |->
        IF dict[k].holder = key THEN [dict[k] EXCEPT !.txs = Append(@, tx)] ELSE dict[k]]

\* The transaction block assembler (the inner while loop, lines 125-142):
\* scanning from line j with block_lines = acc, the final j and block_lines
RECURSIVE Assemble(_, _, _)
\* variant of AssembleLine that does not stop at a cardholder header
AssembleLine_NoHeaderTest(ls, j, acc, nxt, up) ==
    IF DateMatch(nxt) THEN [j |-> j, block_lines |-> acc]
    ELSE IF StartsWithAny(up, FEES_START) \/ StartsWithAny(up, INTEREST_START)
         THEN [j |-> j, block_lines |-> acc]
    ELSE IF StartsWithAny(up, SECTION_END) THEN [j |-> j, block_lines |-> acc]
    ELSE IF StartsWithAny(up, SKIP_PREFIXES) \/ is_page_footer(nxt)
         THEN Assemble(ls, j + 1, acc)
    ELSE Assemble(ls, j + 1, Append(acc, nxt))
\* lines 129-142 for the normalized line nxt and its upper case up
AssembleLine(ls, j, acc, nxt, up) ==
    IF is_cardholder_header(ls, j) # None THEN [j |-> j, block_lines |-> acc]
    ELSE IF DateMatch(nxt) THEN [j |-> j, block_lines |-> acc]
    ELSE IF StartsWithAny(up, FEES_START) \/ StartsWithAny(up, INTEREST_START)
         THEN [j |-> j, block_lines |-> acc]
    ELSE IF StartsWithAny(up, SECTION_END) THEN [j |-> j, block_lines |-> acc]
    ELSE IF StartsWithAny(up, SKIP_PREFIXES) \/ is_page_footer(nxt)
         THEN Assemble(ls, j + 1, acc)
    ELSE Assemble(ls, j + 1, Append(acc, nxt))
Assemble(ls, j, acc) ==
    IF j > Len(ls) THEN [j |-> j, block_lines |-> acc]
    ELSE AssembleLine(ls, j, acc, amex_normalize(ls[j]), Upper(amex_normalize(ls[j])))

\* [b for b in block_lines if b]
NonEmpty(parts) == SelectSeq(parts, LAMBDA b : b # <<>>)

\* variant of FeesStarts without the skip_mode guard
FeesStarts_Unguarded(sm, upper) == StartsWithAny(upper, FEES_START)
\* line 95: the fees section opens
FeesStarts(sm, upper) == sm = "None" /\ StartsWithAny(upper, FEES_START)

\* line 99: the interest section opens
InterestStarts(sm, upper) == sm = "None" /\ StartsWithAny(upper, INTEREST_START)

\* variant of Skipping that takes every line for a line of a skipped section
Skipping_Always(sm) == TRUE
\* variant of Skipping in which no section is ever skipped
Skipping_Off(sm) == FALSE
\* line 104: the scan is inside a skipped section
Skipping(sm) == sm # "None"

\* variant of SkipEnds that ignores the section-end markers
SkipEnds_NoMarker(hdr, line, upper) == hdr # None \/ is_page_footer(line)
\* line 105: the skipped section ends at this line (hdr is the value of
\* is_cardholder_header(lines, i))
SkipEnds(hdr, line, upper) ==
    \/ hdr # None
    \/ is_page_footer(line)
    \/ StartsWithAny(upper, SECTION_END)

\* variant of BranchChain whose transaction branch needs no open section
BranchChain_NoHolderTest(hdr, sm, h, line, upper) ==
    IF hdr # None THEN "header"
    ELSE IF FeesStarts(sm, upper) THEN "fees_start"
    ELSE IF InterestStarts(sm, upper) THEN "interest_start"
    ELSE IF Skipping(sm)
         THEN IF SkipEnds(hdr, line, upper) THEN "skip_reset" ELSE "skip_consume"
    ELSE IF StartsWithAny(upper, SKIP_PREFIXES) \/ is_page_footer(line) THEN "noise"
    ELSE IF DateMatch(line) THEN "transaction"
    ELSE "other"
\* The if-chain of the loop body, in its order: hdr is the value of
\* is_cardholder_header(lines, i), sm the skip state, h the open holder
BranchChain(hdr, sm, h, line, upper) ==
    IF hdr # None THEN "header"
    ELSE IF FeesStarts(sm, upper) THEN "fees_start"
    ELSE IF InterestStarts(sm, upper) THEN "interest_start"
    ELSE IF Skipping(sm)
         THEN IF SkipEnds(hdr, line, upper) THEN "skip_reset" ELSE "skip_consume"
    ELSE IF StartsWithAny(upper, SKIP_PREFIXES) \/ is_page_footer(line) THEN "noise"
    ELSE IF DateMatch(line) /\ h # None THEN "transaction"
    ELSE "other"

\* The branch one iteration of the scan loop takes at line n
AmexBranch(ls, n, sm, h) ==
    BranchChain(is_cardholder_header(ls, n), sm, h, amex_normalize(ls[n]),
                Upper(amex_normalize(ls[n])))

Scanning(branch) ==
    /\ pc = "scan"
    /\ i <= Len(lines)
    /\ AmexBranch(lines, i, skip_mode, current_holder) = branch

\* history entry of the iteration being taken
Entry(branch, next_i, after) ==
    [line |-> i, branch |-> branch, before |-> skip_mode, after |-> after,
     holder |-> current_holder, next |-> next_i]

\* lines 87-93
AmexHeader ==
    /\ Scanning("header")
    /\ current_holder' = Title(is_cardholder_header(lines, i))
    /\ all_cardholders' = SetDefault(all_cardholders, current_holder')
    /\ skip_mode' = "None"
    /\ i' = i + 1
    /\ trace' = Append(trace, Entry("header", i + 1, "None"))
    /\ UNCHANGED <<pc, lines, transactions, cardholders, nameVars, svbVars, amountVars, bradescoVars, ptaxVars,
                   runVars, requests, callVars>>

\* lines 95-98
AmexFeesStart ==
    /\ Scanning("fees_start")
    /\ skip_mode' = "fees"
    /\ i' = i + 1
    /\ trace' = Append(trace, Entry("fees_start", i + 1, "fees"))
    /\ UNCHANGED <<pc, lines, current_holder, all_cardholders, transactions, cardholders,
                   nameVars, svbVars, amountVars, bradescoVars, ptaxVars, runVars, requests,
                   callVars>>

\* lines 99-102
AmexInterestStart ==
    /\ Scanning("interest_start")
    /\ skip_mode' = "interest"
    /\ i' = i + 1
    /\ trace' = Append(trace, Entry("interest_start", i + 1, "interest"))
    /\ UNCHANGED <<pc, lines, current_holder, all_cardholders, transactions, cardholders,
                   nameVars, svbVars, amountVars, bradescoVars, ptaxVars, runVars, requests,
                   callVars>>

\* lines 104-106, 109
AmexSkipReset ==
    /\ Scanning("skip_reset")
    /\ skip_mode' = "None"
    /\ trace' = Append(trace, Entry("skip_reset", i, "None"))
    /\ UNCHANGED <<pc, lines, i, current_holder, all_cardholders, transactions, cardholders,
                   nameVars, svbVars, amountVars, bradescoVars, ptaxVars, runVars, requests,
                   callVars>>

\* lines 104, 107-109
AmexSkipConsume ==
    /\ Scanning("skip_consume")
    /\ i' = i + 1
    /\ trace' = Append(trace, Entry("skip_consume", i + 1, skip_mode))
    /\ UNCHANGED <<pc, lines, skip_mode, current_holder, all_cardholders, transactions,
                   cardholders, nameVars, svbVars, amountVars, bradescoVars, ptaxVars,
                   runVars, requests, callVars>>

\* lines 111-113
AmexNoise ==
    /\ Scanning("noise")
    /\ i' = i + 1
    /\ trace' = Append(trace, Entry("noise", i + 1, skip_mode))
    /\ UNCHANGED <<pc, lines, skip_mode, current_holder, all_cardholders, transactions,
                   cardholders, nameVars, svbVars, amountVars, bradescoVars, ptaxVars,
                   runVars, requests, callVars>>

\* lines 117-121, 144-151: the record of the block that starts at line n.
\* The field line is history (the index of the line that started the block);
\* the source's record has date, description and amount.
BlockRecord(n, date_s, r) ==
    [date |-> DateOrRaw(date_s), description |-> r.description, amount |-> r.amount,
     line |-> n]

\* line 123: block_lines before the inner loop
FirstBlockLines(first_desc) == IF first_desc # <<>> THEN <<first_desc>> ELSE <<>>

\* lines 115-154, for the normalized line and the assembler's result asm
TransactionFrom(line, asm) ==
    /\ all_cardholders' =
          AppendTo(all_cardholders, current_holder,
                   BlockRecord(i, DateGroup(line),
                               extract_amount_and_clean(
                                   Strip(JoinSp(NonEmpty(asm.block_lines))))))
    /\ i' = asm.j
    /\ trace' = Append(trace, Entry("transaction", asm.j, skip_mode))

AmexTransaction ==
    /\ Scanning("transaction")
    /\ TransactionFrom(amex_normalize(lines[i]),
                       Assemble(lines, i + 1,
                                FirstBlockLines(Strip(RestGroup(amex_normalize(lines[i]))))))
    /\ UNCHANGED <<pc, lines, skip_mode, current_holder, transactions, cardholders,
                   nameVars, svbVars, amountVars, bradescoVars, ptaxVars, runVars, requests,
                   callVars>>

\* line 156
AmexOther ==
    /\ Scanning("other")
    /\ i' = i + 1
    /\ trace' = Append(trace, Entry("other", i + 1, skip_mode))
    /\ UNCHANGED <<pc, lines, skip_mode, current_holder, all_cardholders, transactions,
                   cardholders, nameVars, svbVars, amountVars, bradescoVars, ptaxVars,
                   runVars, requests, callVars>>

\* the flattening loop, lines 159-165, from section k on
RECURSIVE Flatten(_, _)
Flatten(dict, k) ==
    IF k > Len(dict) THEN <<>>
    ELSE [t \in DOMAIN dict[k].txs |->
             [date |-> dict[k].txs[t].date,
              description |-> dict[k].txs[t].description,
              amount |-> dict[k].txs[t].amount,
              line |-> dict[k].txs[t].line,
              cardholder |-> normalize_name(dict[k].holder)]]
         \o Flatten(dict, k + 1)

\* lines 158-174: the loop has ended, the result is built
AmexReturn ==
    /\ pc = "scan"
    /\ i > Len(lines)
    /\ transactions' = Flatten(all_cardholders, 1)
    /\ cardholders' = {normalize_name(all_cardholders[k].holder) : k \in DOMAIN all_cardholders}
    /\ pc' = "done"
    /\ UNCHANGED <<lines, i, skip_mode, current_holder, all_cardholders, trace, nameVars, svbVars, amountVars, bradescoVars, ptaxVars,
                   runVars, requests, callVars>>

(***************************************************************************)
(* Amex documents: an optional statement head followed by up to MaxBody    *)
(* lines drawn from AmexLines                                              *)
(***************************************************************************)
L_HOLDER == <<"S"," ","S","O","B","E","L">>
L_CARD == <<"C","A","R","D"," ","E","N","D","I","N","G"," ","1">>
L_HOLDER2 == <<"C"," ","S","O","B","E","L">>
L_FEES == <<"F","E","E","S">>
L_INTEREST == <<"I","N","T","E","R","E","S","T"," ","C","H","A","R","G","E","D">>
L_TOTAL_FEES == <<"T","O","T","A","L"," ","F","E","E","S"," ","F","O","R"," ","T","H","I","S"," ","P","E","R","I","O","D">>
L_FOOTER == <<"p","."," ","1","/","2">>
L_TX == <<"0","1","/","1","5","/","2","4"," ","U","B","E","R"," ","$","2","5",".","0","0">>
L_TIP == <<"T","I","P"," ","$","5",".","0","0">>

AmexLines == {L_HOLDER, L_CARD, L_FEES, L_INTEREST, L_TOTAL_FEES, L_FOOTER, L_TX, L_TIP}

MaxBody == 3

RECURSIVE SeqsUpTo(_, _)
SeqsUpTo(S, n) ==
    IF n = 0 THEN {<<>>}
    ELSE LET shorter == SeqsUpTo(S, n - 1)
         IN  shorter \cup {Append(q, x) : q \in {q \in shorter : Len(q) = n - 1}, x \in S}

\* how a document may begin: nothing, a cardholder header with its card line,
\* or those followed by the opening line of a fees section
AmexHeads == {<<>>, <<L_HOLDER, L_CARD>>, <<L_HOLDER, L_CARD, L_FEES>>}
\* a statement of two cardholders, with a transaction ahead of the first
\* cardholder's section
AmexTwoHolders == <<L_TX, L_TIP, L_HOLDER, L_CARD, L_TX, L_HOLDER2, L_CARD>>

\* a block whose continuation ends at a transaction line that is a page
\* footer as well
L_TX_FOOTER == <<"0","1","/","1","6","/","2","4"," ","L","Y","F","T"," ","p","."," ","1","/","2">>
AmexFooterDate == <<L_HOLDER, L_CARD, L_TX, L_TIP, L_TX_FOOTER, L_TX>>
AmexDocs ==
    {head \o body : head \in AmexHeads, body \in SeqsUpTo(AmexLines, MaxBody)}
        \cup {head \o body : head \in {AmexTwoHolders, AmexFooterDate},
                              body \in SeqsUpTo(AmexLines, MaxBody - 1)}

vars == <<nameVars, svbVars, runVars, callVars, requests, pc, amexVars, amountVars, bradescoVars,
          ptaxVars>>

\* the variables of the amount parsers, and of the Bradesco extractor, before
\* any call
\* no call of the name normalizer module has been made
NoCall == [op |-> "none", alias |-> <<>>, canonical |-> <<>>, ret |-> <<>>]
NamesIdle == alias_added = {} /\ name_arg = <<>> /\ name_op = NoCall /\ name_first = <<>>
SvbIdle == pending_tx = <<>>
RunsIdle == runs = <<>> /\ fx_caches = <<>> /\ requests = 0
CallsIdle == header_out = None /\ brl_tok = <<>> /\ brl_out = None
AmountIdle == blob = <<>> /\ svb_line = <<>> /\ amex_out = None /\ svb_out = None
NoDate == [y |-> 0, m |-> 0, d |-> 0]
PtaxIdle ==
    /\ data_iso = <<>> /\ fx_cache = {} /\ dt = NoDate /\ attempt = 0 /\ walk = <<>>
    /\ fx_result = None
BradescoIdle == year = None /\ holder = <<>> /\ txs = <<>> /\ tx_n = 1

AmexInit ==
    /\ NamesIdle
    /\ SvbIdle
    /\ RunsIdle
    /\ CallsIdle
    /\ pc = "scan"
    /\ lines \in AmexDocs
    /\ i = 1
    /\ skip_mode = "None"
    /\ current_holder = None
    /\ all_cardholders = <<>>
    /\ transactions = <<>>
    /\ cardholders = {}
    /\ trace = <<>>
    /\ AmountIdle
    /\ BradescoIdle
    /\ PtaxIdle

AmexNext ==
    \/ AmexHeader
    \/ AmexFeesStart
    \/ AmexInterestStart
    \/ AmexSkipReset
    \/ AmexSkipConsume
    \/ AmexNoise
    \/ AmexTransaction
    \/ AmexOther
    \/ AmexReturn

SpecAmex == AmexInit /\ [][AmexNext]_vars

\* lines 70-81: the text lines of the pages are read, the scan starts
AmexRead ==
    /\ pc = "read"
    /\ lines' \in AmexDocs
    /\ pc' = "scan"
    /\ UNCHANGED <<i, skip_mode, current_holder, all_cardholders, transactions, cardholders,
                   trace, nameVars, svbVars, amountVars, bradescoVars, ptaxVars, runVars,
                   requests, callVars>>

\* extract_amex is called
AmexCall ==
    /\ NamesIdle
    /\ SvbIdle
    /\ RunsIdle
    /\ CallsIdle
    /\ pc = "read"
    /\ lines = <<>>
    /\ i = 1
    /\ skip_mode = "None"
    /\ current_holder = None
    /\ all_cardholders = <<>>
    /\ transactions = <<>>
    /\ cardholders = {}
    /\ trace = <<>>
    /\ AmountIdle
    /\ BradescoIdle
    /\ PtaxIdle

AmexCallNext == AmexRead \/ AmexNext

\* The extraction is one sequential call: it keeps taking steps until it has
\* returned.  This is weak fairness of AmexCallNext, WF_vars(AmexCallNext),
\* with ENABLED <<AmexCallNext>>_vars written out as pc # "done": the read is
\* possible at "read", and at "scan" the if-chain of the loop body takes one
\* branch at every line and the return follows the last line.
AmexKeepsRunning == []<>(pc = "done") \/ []<><<AmexCallNext>>_vars
FairSpecAmex == AmexCall /\ [][AmexCallNext]_vars /\ AmexKeepsRunning

(***************************************************************************)
(* extractors/svb.py: clean_amount, parse_transaction_line                 *)
(***************************************************************************)
\* re.match(r"^\(.*\)$", value)
SvbParenthesized(value) == Len(value) >= 2 /\ value[1] = "(" /\ value[Len(value)] = ")"

\* lines 18-19
SvbSigned(value) ==
    IF SvbParenthesized(value) THEN <<"-">> \o StripChars(value, {"(", ")"}) ELSE value

\* clean_amount(raw_value)
svb_clean_amount(raw_value) ==
    ParseFloat(Strip(ReplaceChar(ReplaceChar(
        SvbSigned(ReplaceChar(ReplaceChar(Strip(raw_value), "$", <<>>), ",", <<>>)),
        EnDash, <<"-">>), MinusSign, <<"-">>)))

\* the line starts with \d{2}-\d{2}-\d{2}\s
SvbDateHead(s) ==
    /\ Len(s) >= 9
    /\ \A k \in {1, 2, 4, 5, 7, 8} : IsDigit(s[k])
    /\ s[3] = "-" /\ s[6] = "-"
    /\ IsSpace(s[9])

\* first position of the last run of non-whitespace characters of s[1..q]
RECURSIVE LastWordStart(_, _)
LastWordStart(s, q) == IF q > 1 /\ ~IsSpace(s[q - 1]) THEN LastWordStart(s, q - 1) ELSE q

\* \(?-?\$?\d{1,3}(?:,\d{3})*(?:\.\d{2})?\)?$ matches the whole of w: p is
\* the position after the optional "(", "-" and "$"
AfterOptional(w, p, c) == IF p <= Len(w) /\ w[p] = c THEN p + 1 ELSE p
SvbNumberToEnd(w, e) == e # 0 /\ (e = Len(w) + 1 \/ (e = Len(w) /\ w[e] = ")"))
SvbAmountWord(w) ==
    SvbNumberToEnd(w, NumEnd(w, AfterOptional(w, AfterOptional(w, AfterOptional(w, 1, "("),
                                                                "-"), "$")))

\* the pattern of parse_transaction_line matches the stripped line s whose
\* last word starts at q: the text between the date and the last word is
\* whitespace, a description, whitespace
SvbMatch(s, q) == SvbDateHead(s) /\ q - 9 >= 3 /\ SvbAmountWord(Sub(s, q, Len(s)))

\* lines 42-46
SvbDateOrRaw(date_str) ==
    IsoOrRaw(FullYear(IntOf(Sub(date_str, 7, 8))), IntOf(Sub(date_str, 1, 2)),
             IntOf(Sub(date_str, 4, 5)), date_str)

\* lines 48-56: the record, or None when the amount did not convert
SvbRecord(date_str, desc, amount) ==
    IF amount = None THEN None
    ELSE Some([date |-> SvbDateOrRaw(date_str), description |-> desc, amount |-> amount[1]])

SvbParsed(s, q) ==
    IF SvbMatch(s, q)
    THEN SvbRecord(Sub(s, 1, 8), Strip(Sub(s, 9, q - 1)), svb_clean_amount(Sub(s, q, Len(s))))
    ELSE None

SvbParseStripped(s) == IF s = <<>> THEN None ELSE SvbParsed(s, LastWordStart(s, Len(s)))

\* parse_transaction_line(line): None or <<record>>
parse_transaction_line(line) == SvbParseStripped(Strip(line))

(***************************************************************************)
(* extractors/bradesco.py: text normalizer, BRL number parser, row         *)
(* patterns                                                                *)
(***************************************************************************)
\* normalize(s)
bradesco_normalize(s) == Strip(ReplaceChar(s, Nbsp, <<" ">>))

\* str.replace("R$", "")
RECURSIVE RemoveRS(_)
RemoveRS(t) ==
    IF Len(t) < 2 THEN t
    ELSE IF t[1] = "R" /\ t[2] = "$" THEN RemoveRS(Sub(t, 3, Len(t)))
    ELSE <<t[1]>> \o RemoveRS(Tail(t))

\* lines 22-24: the token without its enclosing parentheses
BrlParenthesized(t) == Len(t) >= 1 /\ t[1] = "(" /\ t[Len(t)] = ")"
BrlUnwrapped(t) == IF BrlParenthesized(t) THEN Sub(t, 2, Len(t) - 1) ELSE t

\* lines 25-27
BrlPlain(t) ==
    ReplaceChar(ReplaceChar(ReplaceChar(ReplaceChar(RemoveRS(t), "$", <<>>), " ", <<>>),
                            ".", <<>>),
                ",", <<".">>)

\* line 33
BrlSigned(neg, v) == IF neg THEN Negated(v) ELSE v
\* variant of BrlValue in which a leading "-" flips the sign found so far
BrlValue_Flip(neg, t) ==
    IF t # <<>> /\ t[1] = "-" THEN BrlSigned(~neg, ParseFloat(Tail(t)))
    ELSE BrlSigned(neg, ParseFloat(t))
\* lines 28-35: neg is the sign found so far, t the text after lines 25-27
BrlValue(neg, t) ==
    IF t # <<>> /\ t[1] = "-" THEN BrlSigned(TRUE, ParseFloat(Tail(t)))
    ELSE BrlSigned(neg, ParseFloat(t))

BrlOfNormalized(t) == BrlValue(BrlParenthesized(t), BrlPlain(BrlUnwrapped(t)))

\* parse_brl_number(tok): None or <<hundredths>>
parse_brl_number(tok) == BrlOfNormalized(bradesco_normalize(tok))

\* (?:\.\d{3})* matched greedily at position q
RECURSIVE DotGroupsEnd(_, _)
DotGroupsEnd(s, q) ==
    IF q + 3 <= Len(s) /\ s[q] = "." /\ IsDigit(s[q + 1]) /\ IsDigit(s[q + 2])
       /\ IsDigit(s[q + 3])
    THEN DotGroupsEnd(s, q + 4)
    ELSE q

\* ,\d{2}\)? at position g: the position after it, 0 for no match
BrCentsEnd(s, g) ==
    IF g + 2 <= Len(s) /\ s[g] = "," /\ IsDigit(s[g + 1]) /\ IsDigit(s[g + 2])
    THEN AfterOptional(s, g + 3, ")")
    ELSE 0

\* \d{1,3}(?:\.\d{3})*,\d{2}\)? at position q
BrDigitsEnd(s, q) ==
    IF q <= Len(s) /\ IsDigit(s[q]) THEN BrCentsEnd(s, DotGroupsEnd(s, q + DigitRun(s, q)))
    ELSE 0

\* MONEY_BR = \(?-?\d{1,3}(?:\.\d{3})*,\d{2}\)? tried at position p: the
\* position after the match, 0 for no match
MoneyBrEnd(s, p) == BrDigitsEnd(s, AfterOptional(s, AfterOptional(s, p, "("), "-"))

\* re.finditer(MONEY_BR, s) from position p: <<first, after>> per match
RECURSIVE MoneyBrMatches(_, _)
MoneyFrom(s, p, e) ==
    IF e # 0 THEN <<<<p, e>>>> \o MoneyBrMatches(s, e) ELSE MoneyBrMatches(s, p + 1)
MoneyBrMatches(s, p) == IF p > Len(s) THEN <<>> ELSE MoneyFrom(s, p, MoneyBrEnd(s, p))

\* ^(\d{2}/\d{2})\s matches the line
BrDateHead(l) ==
    /\ Len(l) >= 6
    /\ \A k \in {1, 2, 4, 5} : IsDigit(l[k])
    /\ l[3] = "/"
    /\ IsSpace(l[6])

\* w is one whole MONEY_BR
MoneyWord(w) == MoneyBrEnd(w, 1) = Len(w) + 1

\* row_re matches the (normalized) line l: b is the first position of its
\* last word, u of the word before it; the text between the date and that
\* word is whitespace, a description, whitespace
RowMatch(l, u, b) ==
    /\ BrDateHead(l)
    /\ u - 6 >= 3
    /\ MoneyWord(Sub(l, b, Len(l)))
    /\ MoneyWord(Strip(Sub(l, u, b - 1)))

\* the (ddmm, desc, usd_raw, brl_raw) of a line, lines 117-133; None when
\* the line is passed over
RowFields(ddmm, desc, usd_raw, brl_raw) ==
    Some([ddmm |-> ddmm, desc |-> desc, usd_raw |-> usd_raw, brl_raw |-> brl_raw])

\* lines 119-131: row_re did not match; mm are the MONEY_BR matches
FallbackFields(l, mm) ==
    IF Len(mm) < 2 THEN None
    ELSE IF ~BrDateHead(l) THEN None
    ELSE RowFields(Sub(l, 1, 5),
                   Strip(Sub(l, SkipSpaces(l, 6), mm[Len(mm) - 1][1] - 1)),
                   Sub(l, mm[Len(mm) - 1][1], mm[Len(mm) - 1][2] - 1),
                   Sub(l, mm[Len(mm)][1], mm[Len(mm)][2] - 1))

FieldsAt(l, u, b) ==
    IF RowMatch(l, u, b)
    THEN RowFields(Sub(l, 1, 5), Strip(Sub(l, 6, u - 1)), Strip(Sub(l, u, b - 1)),
                   Sub(l, b, Len(l)))
    ELSE FallbackFields(l, MoneyBrMatches(l, 1))

\* first position of the word before the word that starts at b
WordBefore(l, b) == LastWordStart(l, TrailIn(l, SpaceSet, b - 1) - 1)

FieldsOfWords(l, b) == FieldsAt(l, IF b > 1 THEN WordBefore(l, b) ELSE 1, b)

DATA_HISTORICO == <<<<"D","A","T","A"," ","H","I","S","T",OAcuteUp,"R","I","C","O">>, <<"D","A","T","A"," ","H","I","S","T","O","R","I","C","O">>>>
TOTAL_PREFIX == << <<"T","O","T","A","L",":">> >>

\* lines 112-133 for one line
LineFields(l) ==
    IF StartsWithAny(Upper(l), DATA_HISTORICO) THEN None
    ELSE IF StartsWithAny(Upper(l), TOTAL_PREFIX) THEN None
    ELSE IF l = <<>> THEN None
    ELSE FieldsOfWords(l, LastWordStart(l, Len(l)))

(***************************************************************************)
(* extractors/bradesco.py: year and cardholder discovery, row records      *)
(***************************************************************************)
\* M[e or e-circumflex]s:\s*\w+\/(\d{4}) (IGNORECASE) matched at position k of l, the word
\* \w+ ending at position w: the year, or None
MesYear(l, w) ==
    IF /\ w + 5 <= Len(l)
       /\ l[w + 1] = "/"
       /\ \A d \in 2..5 : IsDigit(l[w + d])
    THEN Some(IntOf(Sub(l, w + 2, w + 5)))
    ELSE None
MesWord(l, p) == IF LeadIn(l, WordSet, p) >= p THEN MesYear(l, LeadIn(l, WordSet, p)) ELSE None
MesAt(l, k) ==
    IF /\ k + 3 <= Len(l)
       /\ ToLower(l[k]) = "m"
       /\ ToLower(l[k + 1]) \in {"e", ECirc}
       /\ ToLower(l[k + 2]) = "s"
       /\ l[k + 3] = ":"
    THEN MesWord(l, SkipSpaces(l, k + 4))
    ELSE None

\* re.search of that pattern in l, from position k on
RECURSIVE MesSearch(_, _)
MesFound(l, k, y) == IF y # None THEN y ELSE MesSearch(l, k + 1)
MesSearch(l, k) == IF k > Len(l) THEN None ELSE MesFound(l, k, MesAt(l, k))

\* ^Nome:\s*(.+)$ (IGNORECASE) on l: the stripped group, or None
NOME == <<"n","o","m","e",":">>
NomeOf(l) ==
    IF Len(l) > 5 /\ Lower(Sub(l, 1, 5)) = NOME THEN Some(Strip(Sub(l, 6, Len(l)))) ELSE None

\* lines 88-98: the loop over the lines, from line k on, with the values
\* found so far
RECURSIVE DiscoverYear(_, _, _)
LaterYear(ls, k, yr, y) == DiscoverYear(ls, k + 1, IF y # None THEN y ELSE yr)
DiscoverYear(ls, k, yr) ==
    IF k > Len(ls) THEN yr ELSE LaterYear(ls, k, yr, MesSearch(bradesco_normalize(ls[k]), 1))

RECURSIVE DiscoverHolder(_, _, _)
LaterHolder(ls, k, hd, h) == DiscoverHolder(ls, k + 1, IF h # None THEN h[1] ELSE hd)
DiscoverHolder(ls, k, hd) ==
    IF k > Len(ls) THEN hd ELSE LaterHolder(ls, k, hd, NomeOf(bradesco_normalize(ls[k])))

CARDHOLDER == <<"C","a","r","d","h","o","l","d","e","r">>

\* re.search(r"(20\d{2})", text) from position k on: the year, or None
RECURSIVE Search20(_, _)
Search20(text, k) ==
    IF k + 3 > Len(text) THEN None
    ELSE IF text[k] = "2" /\ text[k + 1] = "0" /\ IsDigit(text[k + 2]) /\ IsDigit(text[k + 3])
         THEN Some(IntOf(Sub(text, k, k + 3)))
    ELSE Search20(text, k + 1)

NormalizedLines(ls) == [k \in DOMAIN ls |-> bradesco_normalize(ls[k])]

\* lines 100-102: now_year is datetime.now().yr
FallbackYear(m_any, now_year) == IF m_any # None THEN m_any[1] ELSE now_year
YearOr(yr, ls, now_year) ==
    IF yr # None THEN yr[1]
    ELSE FallbackYear(Search20(JoinSp(NormalizedLines(ls)), 1), now_year)

\* str(n) for n >= 0
RECURSIVE IntStr(_)
IntStr(n) == IF n < 10 THEN <<DigitChar(n)>> ELSE IntStr(n \div 10) \o <<DigitChar(n % 10)>>

\* lines 135-139
RowDate(yr, day, month) ==
    IF ValidDate(yr, IntOf(month), IntOf(day))
    THEN FormatIso(yr, IntOf(month), IntOf(day))
    ELSE day \o <<"/">> \o month \o <<"/">> \o IntStr(yr)

\* lines 135-150: the record of a row; n is the number of its line
RowRecord(f, yr, hd, n) ==
    [date |-> RowDate(yr, Sub(f.ddmm, 1, 2), Sub(f.ddmm, 4, 5)),
     description |-> Strip(f.desc),
     amount_usd |-> parse_brl_number(f.usd_raw),
     amount_brl |-> parse_brl_number(f.brl_raw),
     cardholder |-> hd,
     line |-> n]

\* lines 110-150: the loop over the lines, from line k on
RECURSIVE ParseRows(_, _, _, _)
RowsAfter(ls, k, yr, hd, f) ==
    (IF f = None THEN <<>> ELSE <<RowRecord(f[1], yr, hd, k)>>)
        \o ParseRows(ls, k + 1, yr, hd)
ParseRows(ls, k, yr, hd) ==
    IF k > Len(ls) THEN <<>>
    ELSE RowsAfter(ls, k, yr, hd, LineFields(bradesco_normalize(ls[k])))

(***************************************************************************)
(* extractors/bradesco.py: get_cotacao_dolar_ptax, calendar and rounding   *)
(***************************************************************************)
\* data_iso is a date strptime("%Y-%m-%d") accepts
IsoShape(t) ==
    /\ Len(t) = 10
    /\ \A k \in {1, 2, 3, 4, 6, 7, 9, 10} : IsDigit(t[k])
    /\ t[5] = "-" /\ t[8] = "-"
IsoParses(t) ==
    IsoShape(t) /\ ValidDate(IntOf(Sub(t, 1, 4)), IntOf(Sub(t, 6, 7)), IntOf(Sub(t, 9, 10)))
IsoDate(t) == [y |-> IntOf(Sub(t, 1, 4)), m |-> IntOf(Sub(t, 6, 7)), d |-> IntOf(Sub(t, 9, 10))]

\* dt.strftime("%m-%d-%Y")
FormatBcb(date) == Pad(date.m, 2) \o <<"-">> \o Pad(date.d, 2) \o <<"-">> \o Pad(date.y, 4)

\* dt - timedelta(days=1)
PrevDay(date) ==
    IF date.d > 1 THEN [y |-> date.y, m |-> date.m, d |-> date.d - 1]
    ELSE IF date.m > 1
         THEN [y |-> date.y, m |-> date.m - 1, d |-> DaysInMonth(date.y, date.m - 1)]
    ELSE [y |-> date.y - 1, m |-> 12, d |-> 31]

\* round(n / d) to the nearest integer, ties to the even one, for d > 0
RoundTie(q, r2, d) == IF r2 > d \/ (r2 = d /\ q % 2 = 1) THEN q + 1 ELSE q
RoundDiv(n, d) == RoundTie(n \div d, 2 * (n % d), d)

\* lines 159-161: brl in hundredths, rate in ten-thousandths, both optional;
\* the amount in hundredths or None
FinalAmount(brl, rate) ==
    IF brl # None /\ brl[1] # 0 /\ rate # None /\ rate[1] > 0
    THEN Some(RoundDiv(brl[1] * 10000, rate[1]))
    ELSE None

(***************************************************************************)
(* The amount parsers applied to one transaction text: a description word  *)
(* or amount notation per piece, pieces separated by one space; the SVB    *)
(* line is the text after a date.                                          *)
(***************************************************************************)
P_UBER == <<"U","B","E","R">>
P_TIP == <<"T","I","P">>
P_DOLLAR == <<"$","2","5",".","0","0">>
P_THOUSANDS == <<"$","1",",","2","3","4",".","5","6">>
P_PAREN_DOLLAR == <<"(","$","1","0",".","0","0",")">>
P_PAREN == <<"(","1","0",".","0","0",")">>
P_MINUS_DOLLAR == <<"-","$","5",".","0","0">>
P_MINUS_DOLLAR_SP == <<"-","$"," ","5",".","0","0">>
P_PAREN_MINUS == <<"(","-","$","1","0",".","0","0",")">>
Pieces == {P_UBER, P_TIP, P_DOLLAR, P_THOUSANDS, P_PAREN_DOLLAR, P_PAREN, P_MINUS_DOLLAR,
           P_MINUS_DOLLAR_SP, P_PAREN_MINUS}

MaxPieces == 3

Blobs == {JoinSp(q) : q \in SeqsUpTo(Pieces, MaxPieces) \ {<<>>}}

D_VALID == <<"0","1","-","1","5","-","2","4">>
D_INVALID == <<"1","3","-","4","5","-","2","4">>
SvbDates == {D_VALID, D_INVALID}

AmountInit ==
    /\ NamesIdle
    /\ SvbIdle
    /\ RunsIdle
    /\ CallsIdle
    /\ pc = "amount"
    /\ lines = <<>>
    /\ i = 1
    /\ skip_mode = "None"
    /\ current_holder = None
    /\ all_cardholders = <<>>
    /\ transactions = <<>>
    /\ cardholders = {}
    /\ trace = <<>>
    /\ blob \in Blobs
    /\ \E d \in SvbDates : svb_line = d \o <<" ">> \o blob
    /\ amex_out = None
    /\ svb_out = None
    /\ BradescoIdle
    /\ PtaxIdle

\* amex.py: the amount extractor is called on the text
ExtractAmountAndClean ==
    /\ pc = "amount"
    /\ amex_out = None
    /\ amex_out' = Some(extract_amount_and_clean(blob))
    /\ UNCHANGED <<nameVars, svbVars, pc, amexVars, blob, svb_line, svb_out, bradescoVars, ptaxVars,
                   runVars, requests, callVars>>

\* svb.py: the line parser is called on the line
ParseTransactionLine ==
    /\ pc = "amount"
    /\ svb_out = None
    /\ svb_out' = Some(parse_transaction_line(svb_line))
    /\ UNCHANGED <<nameVars, svbVars, pc, amexVars, blob, svb_line, amex_out, bradescoVars, ptaxVars,
                   runVars, requests, callVars>>

AmountNext == ExtractAmountAndClean \/ ParseTransactionLine

SpecAmount == AmountInit /\ [][AmountNext]_vars

(***************************************************************************)
(* extractors/bradesco.py: get_cotacao_dolar_ptax(data_iso, cache), one    *)
(* action per step.  The rate service answers a request with an error (a   *)
(* failed connection, a non-2xx status, a body that is not JSON) or with a *)
(* JSON object whose "value" is a list of quotes; a quote is None when it  *)
(* lacks "cotacaoVenda", <<rate>> otherwise.  A JSON object without        *)
(* "value" reads as the empty list (line 65).                              *)
(***************************************************************************)
WALK_DAYS == 7

\* variant of InCache that finds no key
InCache_Never(cache, key) == FALSE
\* key in cache
InCache(cache, key) == \E e \in cache : e[1] = key
CacheGet(cache, key) == (CHOOSE e \in cache : e[1] = key)[2]
\* variant of CachePut that stores rates only, never None
CachePut_RatesOnly(cache, key, value) ==
    IF value = None THEN cache ELSE {e \in cache : e[1] # key} \cup {<<key, value>>}
\* cache[key] = value
CachePut(cache, key, value) == {e \in cache : e[1] # key} \cup {<<key, value>>}

\* the quote lists the service can answer with
RATE == 5 * 10000
Valores == {<<>>, <<Some(RATE)>>, <<Some(RATE), Some(0)>>, <<Some(0), Some(RATE)>>,
            <<Some(0), None>>}

Answered(ok, valores) == Append(walk, [data_bcb |-> FormatBcb(dt), ok |-> ok, valores |-> valores])

\* lines 44-45
PtaxCached ==
    /\ pc = "lookup"
    /\ InCache(fx_cache, data_iso)
    /\ fx_result' = CacheGet(fx_cache, data_iso)
    /\ walk' = <<>>
    /\ pc' = "returned"
    /\ UNCHANGED <<nameVars, svbVars, amexVars, amountVars, bradescoVars, data_iso, fx_cache, dt,
                   attempt, runVars, requests, callVars>>

\* line 47, strptime accepts data_iso
PtaxStart ==
    /\ pc = "lookup"
    /\ ~InCache(fx_cache, data_iso)
    /\ IsoParses(data_iso)
    /\ dt' = IsoDate(data_iso)
    /\ attempt' = 0
    /\ walk' = <<>>
    /\ pc' = "walk"
    /\ UNCHANGED <<nameVars, svbVars, amexVars, amountVars, bradescoVars, data_iso, fx_cache,
                   fx_result, runVars, requests, callVars>>

\* line 47, strptime raises ValueError: nothing catches it
PtaxStrptimeRaises ==
    /\ pc = "lookup"
    /\ ~InCache(fx_cache, data_iso)
    /\ ~IsoParses(data_iso)
    /\ walk' = <<>>
    /\ pc' = "raised"
    /\ UNCHANGED <<nameVars, svbVars, amexVars, amountVars, bradescoVars, data_iso, fx_cache, dt,
                   attempt, fx_result, runVars, requests, callVars>>

\* lines 56-63: the request fails
PtaxRequestFails ==
    /\ pc = "walk"
    /\ attempt < WALK_DAYS
    /\ walk' = Answered(FALSE, <<>>)
    /\ fx_cache' = CachePut(fx_cache, data_iso, None)
    /\ fx_result' = None
    /\ pc' = "returned"
    /\ requests' = requests + 1
    /\ UNCHANGED <<nameVars, svbVars, amexVars, amountVars, bradescoVars, data_iso, dt, attempt,
                   runVars, callVars>>

\* lines 65-66, 72: no quote for the date
PtaxRequestEmpty ==
    /\ pc = "walk"
    /\ attempt < WALK_DAYS
    /\ walk' = Answered(TRUE, <<>>)
    /\ dt' = PrevDay(dt)
    /\ attempt' = attempt + 1
    /\ requests' = requests + 1
    /\ UNCHANGED <<nameVars, svbVars, pc, amexVars, amountVars, bradescoVars, data_iso, fx_cache,
                   fx_result, runVars, callVars>>

\* variant of UltimoRate that takes valores[0]
UltimoRate_First(valores) == valores[1]
\* line 67: valores[-1]
UltimoRate(valores) == valores[Len(valores)]

\* lines 66-70: the last quote of the list is taken
PtaxRequestQuote ==
    /\ pc = "walk"
    /\ attempt < WALK_DAYS
    /\ \E valores \in Valores :
          /\ valores # <<>>
          /\ UltimoRate(valores) # None
          /\ walk' = Answered(TRUE, valores)
          /\ fx_cache' = CachePut(fx_cache, data_iso, UltimoRate(valores))
          /\ fx_result' = UltimoRate(valores)
    /\ pc' = "returned"
    /\ requests' = requests + 1
    /\ UNCHANGED <<nameVars, svbVars, amexVars, amountVars, bradescoVars, data_iso, dt, attempt,
                   runVars, callVars>>

\* line 68: the last quote has no cotacaoVenda, KeyError: nothing catches it
PtaxRequestBadQuote ==
    /\ pc = "walk"
    /\ attempt < WALK_DAYS
    /\ \E valores \in Valores :
          /\ valores # <<>>
          /\ UltimoRate(valores) = None
          /\ walk' = Answered(TRUE, valores)
    /\ pc' = "raised"
    /\ requests' = requests + 1
    /\ UNCHANGED <<nameVars, svbVars, amexVars, amountVars, bradescoVars, data_iso, fx_cache, dt,
                   attempt, fx_result, runVars, callVars>>

\* lines 74-75: the loop ran out
PtaxExhausted ==
    /\ pc = "walk"
    /\ attempt = WALK_DAYS
    /\ fx_cache' = CachePut(fx_cache, data_iso, None)
    /\ fx_result' = None
    /\ pc' = "returned"
    /\ UNCHANGED <<nameVars, svbVars, amexVars, amountVars, bradescoVars, data_iso, dt, attempt,
                   walk, runVars, requests, callVars>>

PtaxNext ==
    \/ PtaxCached
    \/ PtaxStart
    \/ PtaxStrptimeRaises
    \/ PtaxRequestFails
    \/ PtaxRequestEmpty
    \/ PtaxRequestQuote
    \/ PtaxRequestBadQuote
    \/ PtaxExhausted

\* one call of get_cotacao_dolar_ptax, on a date string extract_bradesco can
\* pass, with a cache that holds the date or not
ISO_JAN == <<"2","0","2","4","-","0","1","-","1","5">>
ISO_MAR == <<"2","0","2","4","-","0","3","-","0","3">>
ISO_NEWYEAR == <<"2","0","2","4","-","0","1","-","0","2">>
ISO_MAR23 == <<"2","0","2","3","-","0","3","-","0","1">>
RAW_FEB == <<"3","1","/","0","2","/","2","0","2","4">>
PtaxDates == {ISO_JAN, ISO_MAR, ISO_NEWYEAR, ISO_MAR23, RAW_FEB}
PtaxCaches == {{}, {<<ISO_JAN, Some(RATE)>>}, {<<ISO_MAR, None>>}}

PtaxInit ==
    /\ NamesIdle
    /\ SvbIdle
    /\ RunsIdle
    /\ CallsIdle
    /\ pc = "lookup"
    /\ lines = <<>>
    /\ i = 1
    /\ skip_mode = "None"
    /\ current_holder = None
    /\ all_cardholders = <<>>
    /\ transactions = <<>>
    /\ cardholders = {}
    /\ trace = <<>>
    /\ AmountIdle
    /\ BradescoIdle
    /\ data_iso \in PtaxDates
    /\ fx_cache \in PtaxCaches
    /\ dt = NoDate
    /\ attempt = 0
    /\ walk = <<>>
    /\ fx_result = None

SpecPtax == PtaxInit /\ [][PtaxNext]_vars

(***************************************************************************)
(* extractors/bradesco.py: extract_bradesco                                *)
(***************************************************************************)
\* datetime.now().year
NowYears == {2026}

\* lines 80-153: the lines are read, year and cardholder discovered, the
\* rows parsed, the cache created
BrParse ==
    /\ pc = "parse"
    /\ \E now_year \in NowYears :
          /\ year' = Some(YearOr(DiscoverYear(lines, 1, None), lines, now_year))
          /\ txs' = ParseRows(lines, 1,
                              YearOr(DiscoverYear(lines, 1, None), lines, now_year),
                              DiscoverHolder(lines, 1, CARDHOLDER))
    /\ holder' = DiscoverHolder(lines, 1, CARDHOLDER)
    /\ fx_cache' = {}
    /\ transactions' = <<>>
    /\ tx_n' = 1
    /\ pc' = "fx"
    /\ UNCHANGED <<nameVars, svbVars, lines, i, skip_mode, current_holder, all_cardholders,
                   cardholders, trace, amountVars, data_iso, dt, attempt, walk, fx_result,
                   runVars, requests, callVars>>

\* line 157: the rate of the row's date is looked up (a row's date is never
\* empty)
BrCall ==
    /\ pc = "fx"
    /\ tx_n <= Len(txs)
    /\ txs[tx_n].date # <<>>
    /\ data_iso' = txs[tx_n].date
    /\ walk' = <<>>
    /\ pc' = "lookup"
    /\ UNCHANGED <<nameVars, svbVars, amexVars, amountVars, bradescoVars, fx_cache, dt, attempt,
                   fx_result, runVars, requests, callVars>>

\* variant of Converted that keeps the BRL value only beside a rate
Converted_BrlWithRate(tx, fx_rate) ==
    [date |-> tx.date, description |-> tx.description,
     amount |-> FinalAmount(tx.amount_brl, fx_rate),
     amount_brl |-> IF fx_rate = None THEN None ELSE tx.amount_brl,
     fx_rate |-> fx_rate, cardholder |-> tx.cardholder, line |-> tx.line]
\* lines 163-170
Converted(tx, fx_rate) ==
    [date |-> tx.date, description |-> tx.description,
     amount |-> FinalAmount(tx.amount_brl, fx_rate), amount_brl |-> tx.amount_brl,
     fx_rate |-> fx_rate, cardholder |-> tx.cardholder, line |-> tx.line]

\* lines 157-170: the lookup returned, the record is emitted
BrEmit ==
    /\ pc = "returned"
    /\ transactions' = Append(transactions, Converted(txs[tx_n], fx_result))
    /\ tx_n' = tx_n + 1
    /\ pc' = "fx"
    /\ UNCHANGED <<nameVars, svbVars, lines, i, skip_mode, current_holder, all_cardholders,
                   cardholders, trace, amountVars, year, holder, txs, ptaxVars,
                   runVars, requests, callVars>>

\* lines 172-176
BrReturn ==
    /\ pc = "fx"
    /\ tx_n > Len(txs)
    /\ cardholders' = <<holder>>
    /\ pc' = "done"
    /\ UNCHANGED <<nameVars, svbVars, lines, i, skip_mode, current_holder, all_cardholders,
                   transactions, trace, amountVars, bradescoVars, ptaxVars, runVars, requests,
                   callVars>>

(***************************************************************************)
(* Bradesco documents: an optional statement head followed by up to        *)
(* MaxRows lines of the transaction table.                                 *)
(***************************************************************************)
B_MES == <<"M",ECirc,"s",":"," ","J","a","n","/","2","0","2","4">>
B_NOME == <<"N","o","m","e",":"," ","S"," ","S","O","B","E","L">>
B_TOTAL == <<"T","O","T","A","L",":"," ","1","2",",","0","0"," ","6","0",",","0","0">>
R_UBER == <<"1","5","/","0","1"," ","U","B","E","R"," ","1","0",",","0","0"," ","5","0",",","0","0">>
R_IOF == <<"0","3","/","0","3"," ","I","O","F"," ","0",",","0","0"," ","0",",","0","0">>
R_FEE == <<"0","2","/","0","1"," ","F","E","E"," ","1",",","0","0"," ","(","5",",","0","0">>
R_REFUND == <<"1","5","/","0","1"," ","R","E","F","U","N","D"," ","(","2",",","0","0",")"," ","(","1","0",",","0","0",")">>
R_FEB31 == <<"3","1","/","0","2"," ","U","B","E","R"," ","1","0",",","0","0"," ","5","0",",","0","0">>
BradescoRows == {B_TOTAL, R_UBER, R_IOF, R_FEE, R_REFUND, R_FEB31}
BradescoHeads == {<<>>, <<B_MES, B_NOME>>}

MaxRows == 2

BradescoDocs == {head \o body : head \in BradescoHeads, body \in SeqsUpTo(BradescoRows, MaxRows)}

BradescoInit ==
    /\ NamesIdle
    /\ SvbIdle
    /\ RunsIdle
    /\ CallsIdle
    /\ pc = "parse"
    /\ lines \in BradescoDocs
    /\ i = 1
    /\ skip_mode = "None"
    /\ current_holder = None
    /\ all_cardholders = <<>>
    /\ transactions = <<>>
    /\ cardholders = <<>>
    /\ trace = <<>>
    /\ AmountIdle
    /\ BradescoIdle
    /\ PtaxIdle

BradescoNext ==
    \/ BrParse
    \/ BrCall
    \/ PtaxCached
    \/ PtaxStart
    \/ PtaxStrptimeRaises
    \/ PtaxRequestFails
    \/ PtaxRequestEmpty
    \/ PtaxRequestQuote
    \/ PtaxRequestBadQuote
    \/ PtaxExhausted
    \/ BrEmit
    \/ BrReturn

SpecBradesco == BradescoInit /\ [][BradescoNext]_vars

(***************************************************************************)
(* extractors/bradesco.py: several invocations of extract_bradesco at a    *)
(* time (one per request the service is handling).  Each invocation is at  *)
(* its rate loop (lines 152-170) over the dates of its parsed rows; a      *)
(* lookup that misses the cache is split into the test of line 44 and the  *)
(* rest of get_cotacao_dolar_ptax, whose walk is summed up by its result   *)
(* (a rate, or None), so that steps of other invocations fall in between.  *)
(* The dates are dates strptime accepts and every quote has a rate.        *)
(***************************************************************************)
RunIds == {1, 2}

\* variant of FxCacheOf with one dict that every invocation uses
FxCacheOf_Module(r) == 1
\* line 153, fx_cache = {}: the dict the local name fx_cache of invocation
\* r is bound to, a dict of its own
FxCacheOf(r) == r

\* the state of an invocation with the fields given
RunAt(run, at, n, rates, reads, wrote, failed) ==
    [at |-> at, dates |-> run.dates, n |-> n, rates |-> rates, reads |-> reads,
     wrote |-> wrote, failed |-> failed]

\* lines 153-154: the cache is created
RunStart(r) ==
    /\ pc = "runs"
    /\ runs[r].at = "start"
    /\ fx_caches' = [fx_caches EXCEPT ![FxCacheOf(r)] = {}]
    /\ runs' = [runs EXCEPT ![r].at = "fx"]
    /\ UNCHANGED <<nameVars, svbVars, requests, pc, amexVars, amountVars, bradescoVars,
                   ptaxVars, callVars>>

\* lines 157, 44-45, 159-170: the date is in the cache, the cached value is
\* the rate of the record
RunHit(r) ==
    /\ pc = "runs"
    /\ runs[r].at = "fx"
    /\ runs[r].n <= Len(runs[r].dates)
    /\ InCache(fx_caches[FxCacheOf(r)], runs[r].dates[runs[r].n])
    /\ runs' = [runs EXCEPT ![r] =
          RunAt(@, "fx", @.n + 1,
                Append(@.rates, CacheGet(fx_caches[FxCacheOf(r)], @.dates[@.n])),
                @.reads \cup {<<@.dates[@.n], CacheGet(fx_caches[FxCacheOf(r)], @.dates[@.n])>>},
                @.wrote, @.failed)]
    /\ UNCHANGED <<nameVars, svbVars, fx_caches, requests, pc, amexVars, amountVars,
                   bradescoVars, ptaxVars, callVars>>

\* lines 157, 44, 47: the date is not in the cache
RunMiss(r) ==
    /\ pc = "runs"
    /\ runs[r].at = "fx"
    /\ runs[r].n <= Len(runs[r].dates)
    /\ ~InCache(fx_caches[FxCacheOf(r)], runs[r].dates[runs[r].n])
    /\ runs' = [runs EXCEPT ![r].at = "lookup"]
    /\ UNCHANGED <<nameVars, svbVars, fx_caches, requests, pc, amexVars, amountVars,
                   bradescoVars, ptaxVars, callVars>>

\* lines 48-75, 159-170: the walk ends with a rate or with None, which is
\* cached and is the rate of the record
RunAnswer(r) ==
    /\ pc = "runs"
    /\ runs[r].at = "lookup"
    /\ \E value \in {None, Some(RATE)} :
          /\ fx_caches' = [fx_caches EXCEPT ![FxCacheOf(r)] =
                              CachePut(@, runs[r].dates[runs[r].n], value)]
          /\ runs' = [runs EXCEPT ![r] =
                RunAt(@, "fx", @.n + 1, Append(@.rates, value), @.reads,
                      @.wrote \cup {<<@.dates[@.n], value>>},
                      IF value = None THEN @.failed \cup {@.dates[@.n]} ELSE @.failed)]
    /\ UNCHANGED <<nameVars, svbVars, requests, pc, amexVars, amountVars, bradescoVars,
                   ptaxVars, callVars>>

\* lines 172-176
RunReturn(r) ==
    /\ pc = "runs"
    /\ runs[r].at = "fx"
    /\ runs[r].n > Len(runs[r].dates)
    /\ runs' = [runs EXCEPT ![r].at = "done"]
    /\ UNCHANGED <<nameVars, svbVars, fx_caches, requests, pc, amexVars, amountVars,
                   bradescoVars, ptaxVars, callVars>>

\* the dates of the rows of one statement: up to MaxRunRows of RunDates
RunDates == {ISO_JAN, ISO_MAR}
MaxRunRows == 2
NewRun(dates) ==
    [at |-> "start", dates |-> dates, n |-> 1, rates |-> <<>>, reads |-> {}, wrote |-> {},
     failed |-> {}]

RunsInit ==
    /\ NamesIdle
    /\ SvbIdle
    /\ CallsIdle
    /\ runs \in [RunIds -> {NewRun(dates) : dates \in SeqsUpTo(RunDates, MaxRunRows)}]
    /\ fx_caches = [c \in RunIds |-> {}]
    /\ requests = 0
    /\ pc = "runs"
    /\ lines = <<>>
    /\ i = 1
    /\ skip_mode = "None"
    /\ current_holder = None
    /\ all_cardholders = <<>>
    /\ transactions = <<>>
    /\ cardholders = <<>>
    /\ trace = <<>>
    /\ AmountIdle
    /\ BradescoIdle
    /\ PtaxIdle

RunsNext ==
    \E r \in RunIds : RunStart(r) \/ RunHit(r) \/ RunMiss(r) \/ RunAnswer(r) \/ RunReturn(r)

SpecRuns == RunsInit /\ [][RunsNext]_vars

(***************************************************************************)
(* extractors/amex.py: is_cardholder_header(lines, i) applied to one line  *)
(* of a text: a candidate line followed by up to MaxAfter lines.           *)
(***************************************************************************)
\* is_cardholder_header(lines, i) is called
IsCardholderHeader ==
    /\ pc = "header"
    /\ header_out = None
    /\ header_out' = Some(is_cardholder_header(lines, i))
    /\ UNCHANGED <<nameVars, svbVars, runVars, requests, pc, amexVars, amountVars, bradescoVars,
                   ptaxVars, brl_tok, brl_out>>

H_LOWER == <<"s"," ","s","o","b","e","l">>
H_DIGIT == <<"S"," ","S","O","B","E","L"," ","2">>
H_PUNCT == <<"O","'","N","E","I","L","-","S","M","I","T","H"," ","J","R",".">>
H_ACCENT == <<"J","O","S",ECircUp>>
H_CARD == <<"C","A","R","D">>
H_ENDING == <<"E","N","D","I","N","G"," ","1">>
H_CLOSING == <<"c","l","o","s","i","n","g"," ","d","a","t","e"," ","0","1","/","1","5","/","2","4">>
H_UBER == <<"U","B","E","R">>
HeaderCandidates == {L_HOLDER, H_LOWER, H_DIGIT, H_PUNCT, H_ACCENT, H_CARD, <<" ">>}
HeaderFollowers == {L_CARD, H_CLOSING, H_CARD, H_ENDING, H_UBER}

MaxAfter == 4

HeaderDocs ==
    {<<line>> \o after : line \in HeaderCandidates, after \in SeqsUpTo(HeaderFollowers, MaxAfter)}

HeaderInit ==
    /\ NamesIdle
    /\ SvbIdle
    /\ RunsIdle
    /\ header_out = None
    /\ brl_tok = <<>>
    /\ brl_out = None
    /\ pc = "header"
    /\ lines \in HeaderDocs
    /\ i \in 1..Len(lines)
    /\ skip_mode = "None"
    /\ current_holder = None
    /\ all_cardholders = <<>>
    /\ transactions = <<>>
    /\ cardholders = <<>>
    /\ trace = <<>>
    /\ AmountIdle
    /\ BradescoIdle
    /\ PtaxIdle

HeaderNext == IsCardholderHeader

SpecHeader == HeaderInit /\ [][HeaderNext]_vars

(***************************************************************************)
(* extractors/bradesco.py: parse_brl_number applied to one token of the    *)
(* shape the row patterns of extract_bradesco hand to it (MONEY_BR, line   *)
(* 106): an optional "(", an optional "-", one to three digits, groups of  *)
(* "." and three digits, "," and two digits, an optional ")".              *)
(***************************************************************************)
\* parse_brl_number(brl_tok) is called
ParseBrlNumber ==
    /\ pc = "brl"
    /\ brl_out = None
    /\ brl_out' = Some(parse_brl_number(brl_tok))
    /\ UNCHANGED <<nameVars, svbVars, runVars, requests, pc, amexVars, amountVars, bradescoVars,
                   ptaxVars, header_out, brl_tok>>

BrlLeads == {<<"0">>, <<"1">>, <<"1","2">>, <<"1","2","3">>}
BrlGroups == {<<".","2","3","4">>, <<".","0","0","0">>}
BrlCents == {<<",","0","0">>, <<",","5","6">>}

MaxGroups == 1

RECURSIVE Concat(_)
Concat(parts) == IF parts = <<>> THEN <<>> ELSE Head(parts) \o Concat(Tail(parts))

BrlNumbers ==
    {lead \o Concat(groups) \o cents :
        lead \in BrlLeads, groups \in SeqsUpTo(BrlGroups, MaxGroups), cents \in BrlCents}
BrlTokens ==
    {open \o sign \o number \o close :
        open \in {<<>>, <<"(">>}, sign \in {<<>>, <<"-">>}, number \in BrlNumbers,
        close \in {<<>>, <<")">>}}

BrlInit ==
    /\ NamesIdle
    /\ SvbIdle
    /\ RunsIdle
    /\ header_out = None
    /\ brl_tok \in BrlTokens
    /\ brl_out = None
    /\ pc = "brl"
    /\ lines = <<>>
    /\ i = 1
    /\ skip_mode = "None"
    /\ current_holder = None
    /\ all_cardholders = <<>>
    /\ transactions = <<>>
    /\ cardholders = <<>>
    /\ trace = <<>>
    /\ AmountIdle
    /\ BradescoIdle
    /\ PtaxIdle

BrlNext == ParseBrlNumber

SpecBrl == BrlInit /\ [][BrlNext]_vars

(***************************************************************************)
(* extractors/svb.py: extract_svb, one action per iteration of the loop    *)
(* over the lines and one for what follows the loop.  Lines are numbered   *)
(* from 1.                                                                 *)
(***************************************************************************)
TOTAL_FOR_ACCOUNT == <<" ","T","O","T","A","L"," ","F","O","R"," ","A","C","C","O","U","N","T"," ","E","N","D","I","N","G"," ","I","N"," ">>
\* cardholder_pattern, ^(.*?) TOTAL FOR ACCOUNT ENDING IN \d+.*$ (IGNORECASE):
\* the first position, from p on, where the literal starts and a digit
\* follows it; 0 for no match
RECURSIVE HolderMatchAt(_, _)
HolderMatchAt(line, p) ==
    IF p + Len(TOTAL_FOR_ACCOUNT) > Len(line) THEN 0
    ELSE IF /\ Upper(Sub(line, p, p + Len(TOTAL_FOR_ACCOUNT) - 1)) = TOTAL_FOR_ACCOUNT
            /\ IsDigit(line[p + Len(TOTAL_FOR_ACCOUNT)])
         THEN p
         ELSE HolderMatchAt(line, p + 1)
\* line 85: holder_match.group(1).strip()
HolderGroup(line, p) == Strip(Sub(line, 1, p - 1))

\* (\d+) at position q: the digits, empty when there is none
DigitsAt(text, q) == Sub(text, q, LeadIn(text, DigitSet, q))
\* re.search(key + r"\s*(\d+)", text) from position p on: None or <<group 1>>
RECURSIVE KeySearch(_, _, _)
KeySearch(text, key, p) ==
    IF p + Len(key) - 1 > Len(text) THEN None
    ELSE IF /\ Sub(text, p, p + Len(key) - 1) = key
            /\ DigitsAt(text, SkipSpaces(text, p + Len(key))) # <<>>
         THEN Some(DigitsAt(text, SkipSpaces(text, p + Len(key))))
         ELSE KeySearch(text, key, p + 1)
MCC == <<"M","C","C",":">>
MERCHANT_ZIP == <<"M","E","R","C","H","A","N","T"," ","Z","I","P",":">>
\* lines 93-94: the group, or "" without a match
GroupOrEmpty(m) == IF m = None THEN <<>> ELSE m[1]

\* lines 89-90: the two lines after line idx, joined
SvbContext(ls, idx) ==
    JoinSp(Sub(ls, idx + 1, IF idx + 2 <= Len(ls) THEN idx + 2 ELSE Len(ls)))
\* lines 87-94: mcc and merchant_zip are written into every pending record
Enriched(pending, ls) ==
    [j \in DOMAIN pending |->
        [pending[j] EXCEPT
            !.mcc = Some(GroupOrEmpty(KeySearch(SvbContext(ls, pending[j].line), MCC, 1))),
            !.merchant_zip =
                Some(GroupOrEmpty(KeySearch(SvbContext(ls, pending[j].line), MERCHANT_ZIP, 1)))]]

\* dict.setdefault(key, []).extend(items)
ExtendIn(dict, key, items) ==
    [k \in DOMAIN dict |->
        IF dict[k].holder = key THEN [dict[k] EXCEPT !.txs = @ \o items] ELSE dict[k]]
Extend(dict, key, items) == ExtendIn(SetDefault(dict, key), key, items)

\* lines 78-82: the record a transaction line adds to pending_tx, with the
\* number of its line (pending_idx); mcc and merchant_zip are not set yet
PendingRecord(tx, idx) ==
    [date |-> tx.date, description |-> tx.description, amount |-> tx.amount,
     line |-> idx, mcc |-> None, merchant_zip |-> None]

\* lines 76-82: the line is a transaction
SvbTransaction ==
    /\ pc = "svb"
    /\ i <= Len(lines)
    /\ parse_transaction_line(lines[i]) # None
    /\ pending_tx' = Append(pending_tx, PendingRecord(parse_transaction_line(lines[i])[1], i))
    /\ i' = i + 1
    /\ UNCHANGED <<nameVars, pc, lines, skip_mode, current_holder, all_cardholders,
                   transactions, cardholders, trace, amountVars, bradescoVars, ptaxVars,
                   runVars, requests, callVars>>

\* lines 84-98: the line is a cardholder total line; the pending records,
\* if any, go to the cardholder
SvbTotal ==
    /\ pc = "svb"
    /\ i <= Len(lines)
    /\ parse_transaction_line(lines[i]) = None
    /\ HolderMatchAt(lines[i], 1) # 0
    /\ all_cardholders' =
          IF pending_tx # <<>>
          THEN Extend(all_cardholders, HolderGroup(lines[i], HolderMatchAt(lines[i], 1)),
                      Enriched(pending_tx, lines))
          ELSE all_cardholders
    /\ pending_tx' = <<>>
    /\ i' = i + 1
    /\ UNCHANGED <<nameVars, pc, lines, skip_mode, current_holder, transactions, cardholders,
                   trace, amountVars, bradescoVars, ptaxVars, runVars, requests, callVars>>

\* lines 76-84: any other line
SvbOther ==
    /\ pc = "svb"
    /\ i <= Len(lines)
    /\ parse_transaction_line(lines[i]) = None
    /\ HolderMatchAt(lines[i], 1) = 0
    /\ i' = i + 1
    /\ UNCHANGED <<nameVars, svbVars, pc, lines, skip_mode, current_holder, all_cardholders,
                   transactions, cardholders, trace, amountVars, bradescoVars, ptaxVars,
                   runVars, requests, callVars>>

ACCOUNT_NUMBER == <<"A","c","c","o","u","n","t"," ","N","u","m","b","e","r",":">>
ENDING_IN == <<"E","n","d","i","n","g"," ","i","n">>
\* Account Number:\s+Ending in\s+(\d+) at position p, for q the position
\* after the whitespace that follows "Account Number:": None or <<group 1>>
AcctEnding(line, p, q) ==
    IF /\ q > p + Len(ACCOUNT_NUMBER)
       /\ Sub(line, q, q + Len(ENDING_IN) - 1) = ENDING_IN
       /\ SkipSpaces(line, q + Len(ENDING_IN)) > q + Len(ENDING_IN)
       /\ DigitsAt(line, SkipSpaces(line, q + Len(ENDING_IN))) # <<>>
    THEN Some(DigitsAt(line, SkipSpaces(line, q + Len(ENDING_IN))))
    ELSE None
\* re.search of that pattern in the line, from position p on
RECURSIVE AcctSearch(_, _)
AcctSearch(line, p) ==
    IF p + Len(ACCOUNT_NUMBER) - 1 > Len(line) THEN None
    ELSE IF /\ Sub(line, p, p + Len(ACCOUNT_NUMBER) - 1) = ACCOUNT_NUMBER
            /\ AcctEnding(line, p, SkipSpaces(line, p + Len(ACCOUNT_NUMBER))) # None
         THEN AcctEnding(line, p, SkipSpaces(line, p + Len(ACCOUNT_NUMBER)))
         ELSE AcctSearch(line, p + 1)
\* lines 102-107: the first line with an account number, from line k on
RECURSIVE AcctMatch(_, _)
AcctMatch(ls, k) ==
    IF k > Len(ls) THEN None
    ELSE IF AcctSearch(ls[k], 1) # None THEN AcctSearch(ls[k], 1)
    ELSE AcctMatch(ls, k + 1)
ACCOUNT_ == <<"A","c","c","o","u","n","t"," ">>
ALL_TRANSACTIONS == <<"A","l","l"," ","T","r","a","n","s","a","c","t","i","o","n","s">>
\* lines 109-112
HolderName(acct_match) ==
    IF acct_match # None THEN ACCOUNT_ \o acct_match[1] ELSE ALL_TRANSACTIONS

\* variant of WithPending in which the records still pending are left out
WithPending_Left(dict, pending, ls) == dict
\* lines 101-114: records still pending after the loop go to a holder named
\* after the account number
WithPending(dict, pending, ls) ==
    IF pending # <<>> THEN Extend(dict, HolderName(AcctMatch(ls, 1)), pending) ELSE dict

PAYMENT_THANK_YOU == <<"P","A","Y","M","E","N","T"," ","-"," ","T","H","A","N","K"," ","Y","O","U">>
\* line 121
IsPayment(tx) == Contains(Upper(tx.description), PAYMENT_THANK_YOU)
\* lines 123-124: tx["cardholder"] = cardholder, for every record of items
Tagged(items, cardholder) ==
    [t \in DOMAIN items |->
        [date |-> items[t].date, description |-> items[t].description,
         amount |-> items[t].amount, mcc |-> items[t].mcc,
         merchant_zip |-> items[t].merchant_zip, cardholder |-> cardholder]]
\* lines 119-124: the records of one section, payments left out
SectionRecords(section) ==
    Tagged(SelectSeq(section.txs, LAMBDA tx : ~IsPayment(tx)), section.holder)
\* lines 117-124, from section k on
RECURSIVE SvbFlatten(_, _)
SvbFlatten(dict, k) ==
    IF k > Len(dict) THEN <<>> ELSE SectionRecords(dict[k]) \o SvbFlatten(dict, k + 1)

\* lines 100-130: the loop has ended
SvbReturn ==
    /\ pc = "svb"
    /\ i > Len(lines)
    /\ all_cardholders' = WithPending(all_cardholders, pending_tx, lines)
    /\ transactions' = SvbFlatten(all_cardholders', 1)
    /\ cardholders' = [k \in DOMAIN all_cardholders' |-> all_cardholders'[k].holder]
    /\ pc' = "done"
    /\ UNCHANGED <<nameVars, svbVars, lines, i, skip_mode, current_holder, trace, amountVars,
                   bradescoVars, ptaxVars, runVars, requests, callVars>>

(***************************************************************************)
(* SVB documents: up to MaxSvbLines lines drawn from SvbLines              *)
(***************************************************************************)
S_TX == <<"0","1","-","1","5","-","2","4"," ","U","B","E","R"," ","$","2","5",".","0","0">>
S_MCC == <<"M","C","C",":"," ","4","1","2","1"," ","M","E","R","C","H","A","N","T"," ","Z","I","P",":"," ","9","4","1","0","5">>
S_TOTAL == <<"J","O","H","N"," ","S","M","I","T","H"," ","T","O","T","A","L"," ","F","O","R"," ","A","C","C","O","U","N","T"," ","E","N","D","I","N","G"," ","I","N"," ","1","2","3","4">>
S_TOTAL2 == <<"C"," ","S","O","B","E","L"," ","T","o","t","a","l"," ","f","o","r"," ","A","c","c","o","u","n","t"," ","E","n","d","i","n","g"," ","i","n"," ","5","6","7","8"," ","$","3","0",".","0","0">>
S_ACCT == <<"A","c","c","o","u","n","t"," ","N","u","m","b","e","r",":"," ","E","n","d","i","n","g"," ","i","n"," ","9","9","9","9">>
S_PAYMENT == <<"0","1","-","1","6","-","2","4"," ","P","A","Y","M","E","N","T"," ","-"," ","T","H","A","N","K"," ","Y","O","U"," ","-","$","1","0","0",".","0","0">>
SvbLines == {S_TX, S_MCC, S_TOTAL, S_TOTAL2, S_ACCT, S_PAYMENT}

MaxSvbLines == 3

SvbDocs == SeqsUpTo(SvbLines, MaxSvbLines)

SvbInit ==
    /\ NamesIdle
    /\ SvbIdle
    /\ RunsIdle
    /\ CallsIdle
    /\ pc = "svb"
    /\ lines \in SvbDocs
    /\ i = 1
    /\ skip_mode = "None"
    /\ current_holder = None
    /\ all_cardholders = <<>>
    /\ transactions = <<>>
    /\ cardholders = <<>>
    /\ trace = <<>>
    /\ AmountIdle
    /\ BradescoIdle
    /\ PtaxIdle

SvbNext == SvbTransaction \/ SvbTotal \/ SvbOther \/ SvbReturn

SpecSvb == SvbInit /\ [][SvbNext]_vars

(***************************************************************************)
(* services/name_normalizer.py: the operations of the module.  The         *)
(* application calls normalize_name only; add_alias is an operation the    *)
(* module offers to any caller.                                            *)
(***************************************************************************)
\* variant of Overridden in which the assignment drops the other entries
Overridden_Alone(added, key, canonical) ==
    IF <<key, canonical>> \in NAME_ALIASES THEN {} ELSE {<<key, canonical>>}
\* dict assignment NAME_ALIASES[key] = canonical, on the entries that differ
\* from the table as written in the source
Overridden(added, key, canonical) ==
    {e \in added : e[1] # key}
        \cup (IF <<key, canonical>> \in NAME_ALIASES THEN {} ELSE {<<key, canonical>>})

\* variant of AddAliasTable without the test of the canonical name
AddAliasTable_Unchecked(added, alias, canonical) ==
    Overridden(added, Lower(Strip(alias)), canonical)
\* add_alias, lines 182-185: the table after the call
AddAliasTable(added, alias, canonical) ==
    IF canonical \notin Range(CANONICAL_NAMES) THEN added
    ELSE Overridden(added, Lower(Strip(alias)), canonical)

\* normalize_name(name_arg) is called
NormalizeName ==
    /\ pc \in {"names", "module"}
    /\ name_op' = [op |-> "normalize_name", alias |-> <<>>, canonical |-> <<>>,
                   ret |-> <<normalize_name(name_arg)>>]
    /\ name_first' = IF name_first = <<>> THEN <<alias_added, normalize_name(name_arg)>>
                     ELSE name_first
    /\ UNCHANGED <<alias_added, name_arg, svbVars, pc, amexVars, amountVars, bradescoVars,
                   ptaxVars, runVars, requests, callVars>>

\* get_canonical_names() is called: a copy of the list is returned
GetCanonicalNames ==
    /\ pc \in {"names", "module"}
    /\ name_op' = [op |-> "get_canonical_names", alias |-> <<>>, canonical |-> <<>>,
                   ret |-> <<CANONICAL_NAMES>>]
    /\ UNCHANGED <<alias_added, name_arg, name_first, svbVars, pc, amexVars, amountVars,
                   bradescoVars, ptaxVars, runVars, requests, callVars>>

\* the arguments add_alias is called with
ALIAS_C_SOBEL == <<" ","C","."," ","S","o","b","e","l"," ">>
ALIAS_ZED == <<"Z","E","D"," ","Q">>
ALIAS_ZED_WIDE == <<"Z","e","d"," "," ","Q">>
ALIAS_BOB_AMEX == <<"B","o","b"," ","-"," ","a","m","e","x">>
AliasInputs == {ALIAS_C_SOBEL, ALIAS_ZED, ALIAS_ZED_WIDE, ALIAS_BOB_AMEX}
NOBODY == <<"N","o","b","o","d","y">>
AliasTargets == {CANONICAL_NAMES[1], CANONICAL_NAMES[2], NOBODY}

\* add_alias(alias, canonical) is called
AddAlias ==
    /\ pc = "module"
    /\ \E alias \in AliasInputs, canonical \in AliasTargets :
          /\ alias_added' = AddAliasTable(alias_added, alias, canonical)
          /\ name_op' = [op |-> "add_alias", alias |-> alias, canonical |-> canonical,
                         ret |-> <<canonical \in Range(CANONICAL_NAMES)>>]
    /\ UNCHANGED <<name_arg, name_first, svbVars, pc, amexVars, amountVars, bradescoVars,
                   ptaxVars, runVars, requests, callVars>>

(***************************************************************************)
(* Names: words joined by runs of whitespace, in several letter cases,     *)
(* with whitespace around.  MaxPad bounds the whitespace added.            *)
(***************************************************************************)
W_C == <<"C",".">>
W_SOBEL == <<"S","o","b","e","l">>
W_SOBEL_COMMA == <<"S","o","b","e","l",",">>
W_CLIFFORD == <<"C","l","i","f","f","o","r","d">>
CliffordForms == {<<W_C, W_SOBEL>>, <<W_SOBEL_COMMA, W_CLIFFORD>>, <<W_CLIFFORD, W_SOBEL>>}
OtherForms ==
    { <<>>,
      << <<"S">>, W_SOBEL >>,
      << <<"X">>, W_SOBEL >>,
      << <<"Z","e","d">>, <<"Q">> >>,
      << <<"S","a","m">>, <<"B","e","l">> >>,
      << <<"k","e","l","l","i">>, <<"b","a","l","l","a","r","d">> >>,
      << <<"d","'","a","r","c","y">>, <<"o","'","n","e","i","l">> >>,
      << <<"J",".","D",".">>, <<"S","m","i","t","h">> >>,
      << W_CLIFFORD, W_SOBEL, <<"-">>, <<"A","M","E","X">> >> }

MaxPad == 1

Pads == SeqsUpTo(SpaceSet, MaxPad)
Gaps == SeqsUpTo(SpaceSet, MaxPad + 1) \ {<<>>}

RECURSIVE JoinWith(_, _)
JoinWith(words, gap) ==
    IF words = <<>> THEN <<>>
    ELSE IF Len(words) = 1 THEN words[1]
    ELSE words[1] \o gap \o JoinWith(Tail(words), gap)

SwapCase(s) == [k \in DOMAIN s |-> IF IsUpper(s[k]) THEN ToLower(s[k]) ELSE ToUpper(s[k])]
CaseForms(s) == {s, Upper(s), Lower(s), SwapCase(s)}

\* the spellings of a name given by its words
Spellings(words) ==
    {lead \o c \o trail :
        lead \in Pads, trail \in Pads,
        c \in UNION {CaseForms(JoinWith(words, gap)) : gap \in Gaps}}

NameInputs == UNION {Spellings(words) : words \in CliffordForms \cup OtherForms}

\* the names a caller of the module asks about
PROBE_C_SOBEL == <<"c","."," ","s","o","b","e","l">>
PROBE_ZED == <<"z","e","d"," ","q">>
ModuleProbes ==
    {PROBE_C_SOBEL, PROBE_ZED, CANONICAL_NAMES[2], <<"S">> \o <<" ">> \o W_SOBEL}
        \cup AliasInputs

NamesStart(inputs, at) ==
    /\ alias_added = {}
    /\ name_arg \in inputs
    /\ name_op = NoCall
    /\ name_first = <<>>
    /\ SvbIdle
    /\ RunsIdle
    /\ CallsIdle
    /\ pc = at
    /\ lines = <<>>
    /\ i = 1
    /\ skip_mode = "None"
    /\ current_holder = None
    /\ all_cardholders = <<>>
    /\ transactions = <<>>
    /\ cardholders = {}
    /\ trace = <<>>
    /\ AmountIdle
    /\ BradescoIdle
    /\ PtaxIdle

\* the application: normalize_name and get_canonical_names on the table of
\* the source
NamesInit == NamesStart(NameInputs, "names")
NamesNext == NormalizeName \/ GetCanonicalNames
SpecNames == NamesInit /\ [][NamesNext]_vars

\* any caller of the module: the three operations in any order
ModuleInit == NamesStart(ModuleProbes, "module")
ModuleNext == NormalizeName \/ GetCanonicalNames \/ AddAlias
SpecNameModule == ModuleInit /\ [][ModuleNext]_vars

(***************************************************************************)
(* Properties of extract_amex                                              *)
(***************************************************************************)
Norm(k) == amex_normalize(lines[k])
SectionEndAt(k) == StartsWithAny(Upper(Norm(k)), SECTION_END)
SectionStartAt(k) ==
    StartsWithAny(Upper(Norm(k)), FEES_START) \/ StartsWithAny(Upper(Norm(k)), INTEREST_START)
FooterAt(k) == is_page_footer(Norm(k))
HeaderAt(k) == is_cardholder_header(lines, k) # None
TxStartAt(k) == DateMatch(Norm(k))
HasAmountToken(text) == AmountTokenMatches(text, 1) # <<>>
\* the scan loop took this branch at line k
Took(k, branch) == \E e \in DOMAIN trace : trace[e].line = k /\ trace[e].branch = branch
\* number of records collected so far, and the returned records of the block
\* started at line k
RECURSIVE CountFrom(_, _)
CountFrom(dict, s) == IF s > Len(dict) THEN 0 ELSE Len(dict[s].txs) + CountFrom(dict, s + 1)
RecordCount == CountFrom(all_cardholders, 1)
Returned(k) == {t \in DOMAIN transactions : transactions[t].line = k}
\* a header line precedes line k; the nearest one
HolderOpenAt(k) == \E h \in 1..(k - 1) : HeaderAt(h)
NearestHeader(k) == CHOOSE h \in 1..(k - 1) : HeaderAt(h) /\ \A g \in (h + 1)..(k - 1) : ~HeaderAt(g)
\* MM/DD/YY of a valid date of this century, rewritten digit by digit
IsoOfToken(d) ==
    (IF IntOf(Sub(d, 7, 8)) <= 68 THEN <<"2", "0">> ELSE <<"1", "9">>)
        \o <<d[7], d[8], "-", d[1], d[2], "-", d[4], d[5]>>

\* C1.  While skip_mode is not None no iteration of the scan adds a record to
\* any cardholder section, whatever the line is.
C1_NoRecordWhileSkipping ==
    [][(pc = "scan" /\ skip_mode # "None") =>
          /\ RecordCount' = RecordCount
          /\ \A s \in DOMAIN all_cardholders : all_cardholders'[s] = all_cardholders[s]]_vars

\* a date line under an open section was consumed in a skip state
C1_Witness ==
    \E e \in DOMAIN trace :
        /\ trace[e].branch = "skip_consume"
        /\ trace[e].before # "None"
        /\ trace[e].holder # None
        /\ TxStartAt(trace[e].line)
        /\ HasAmountToken(Norm(trace[e].line))

\* C2 as claimed.  When the scan is over: a date+amount line between a fees
\* section-start line and the next section-end marker has no record, and the
\* first transaction-start line after that marker, under an open cardholder
\* section, has exactly one record with its ISO date.
FeesSection(f, e) ==
    /\ f < e /\ Took(f, "fees_start") /\ SectionEndAt(e)
    /\ \A m \in (f + 1)..(e - 1) : ~SectionEndAt(m)
FirstTxAfter(e, t) == e < t /\ TxStartAt(t) /\ \A m \in (e + 1)..(t - 1) : ~TxStartAt(m)
ParsedNormally(t) ==
    /\ Cardinality(Returned(t)) = 1
    /\ \A r \in Returned(t) :
          /\ transactions[r].date = IsoOfToken(DateGroup(Norm(t)))
          /\ transactions[r].cardholder = normalize_name(Norm(NearestHeader(t)))

C2_Claimed ==
    pc = "done" =>
        \A f, e \in DOMAIN lines : FeesSection(f, e) =>
            /\ \A k \in (f + 1)..(e - 1) :
                  TxStartAt(k) /\ HasAmountToken(Norm(k)) => Returned(k) = {}
            /\ \A t \in DOMAIN lines :
                  FirstTxAfter(e, t) /\ HolderOpenAt(t) => ParsedNormally(t)

\* C2 as amended.  A date+amount line after a fees section-start line, with no
\* section-end marker, page footer or cardholder header between the two, has
\* no record; the first transaction-start line after the section's end marker
\* has exactly one record when a cardholder section is open, no fees or
\* interest section-start line lies between the marker and it, and the line
\* is not itself a page footer.
C2_FeesSectionSkipped ==
    pc = "done" =>
        /\ \A f, k \in DOMAIN lines :
              /\ f < k /\ Took(f, "fees_start")
              /\ TxStartAt(k) /\ HasAmountToken(Norm(k))
              /\ \A m \in (f + 1)..(k - 1) : ~SectionEndAt(m) /\ ~FooterAt(m) /\ ~HeaderAt(m)
              => Returned(k) = {}
        /\ \A f, e, t \in DOMAIN lines :
              /\ FeesSection(f, e)
              /\ FirstTxAfter(e, t) /\ HolderOpenAt(t) /\ ~FooterAt(t)
              /\ \A m \in (e + 1)..(t - 1) : ~SectionStartAt(m)
              => ParsedNormally(t)

\* a fees section with a skipped date+amount line, closed by its marker, and
\* the next transaction line recorded
C2_Witness ==
    /\ pc = "done"
    /\ \E f, k, e, t \in DOMAIN lines :
          /\ FeesSection(f, e) /\ f < k /\ k < e
          /\ TxStartAt(k) /\ HasAmountToken(Norm(k)) /\ Returned(k) = {}
          /\ FirstTxAfter(e, t) /\ Cardinality(Returned(t)) = 1

\* C3.  skip_mode changes only None -> fees on a fees section-start line,
\* None -> interest on an interest section-start line, fees/interest -> None
\* on a section-end marker, cardholder header or page footer; after an
\* iteration at a section-end marker or a cardholder header it is None.
C3_SkipTransitions ==
    [][(pc = "scan" /\ i <= Len(lines)) =>
          /\ skip_mode' # skip_mode =>
                \/ /\ skip_mode = "None" /\ skip_mode' = "fees"
                   /\ StartsWithAny(Upper(Norm(i)), FEES_START)
                \/ /\ skip_mode = "None" /\ skip_mode' = "interest"
                   /\ StartsWithAny(Upper(Norm(i)), INTEREST_START)
                \/ /\ skip_mode \in {"fees", "interest"} /\ skip_mode' = "None"
                   /\ (SectionEndAt(i) \/ HeaderAt(i) \/ FooterAt(i))
          /\ (SectionEndAt(i) \/ HeaderAt(i)) => skip_mode' = "None"]_vars

\* the scan went None -> fees, back to None at a section-end marker, and
\* None -> interest
C3_Witness ==
    /\ \E e \in DOMAIN trace :
          trace[e].before = "None" /\ trace[e].after = "fees"
    /\ \E e \in DOMAIN trace :
          trace[e].before = "fees" /\ trace[e].after = "None" /\ SectionEndAt(trace[e].line)
    /\ \E e \in DOMAIN trace :
          trace[e].before = "None" /\ trace[e].after = "interest"

\* A line of the form MM/DD/YY <description> $<amount>: a calendar date, then
\* text whose last monetary token starts with "$" and ends the line.
RestOf(k) == Strip(RestGroup(Norm(k)))
LastToken(k) == LastOf(AmountTokenMatches(RestOf(k), 1))
DateOfLine(k) ==
    [y |-> FullYear(IntOf(Sub(Norm(k), 7, 8))), m |-> IntOf(Sub(Norm(k), 1, 2)),
     d |-> IntOf(Sub(Norm(k), 4, 5))]
FormLine(k) ==
    /\ DateMatch(Norm(k))
    /\ ValidDate(DateOfLine(k).y, DateOfLine(k).m, DateOfLine(k).d)
    /\ HasAmountToken(RestOf(k))
    /\ RestOf(k)[LastToken(k)[1]] = "$"
    /\ LastToken(k)[2] = Len(RestOf(k)) + 1
\* its <description>, and its <amount> in hundredths
LineDescription(k) == Strip(Sub(RestOf(k), 1, LastToken(k)[1] - 1))
AmountDigits(k) ==
    SelectSeq(Sub(RestOf(k), LastToken(k)[1], Len(RestOf(k))), LAMBDA c : IsDigit(c) \/ c = ".")
DecimalCents(d) ==
    IF \E p \in DOMAIN d : d[p] = "."
    THEN IntOf(Sub(d, 1, Len(d) - 3)) * 100 + IntOf(Sub(d, Len(d) - 1, Len(d)))
    ELSE IntOf(d) * 100
\* the scan reached line k in NORMAL state with a cardholder section open,
\* and went on at line n
NormalAt(k, n) ==
    \E e \in DOMAIN trace :
        /\ trace[e].line = k /\ trace[e].before = "None" /\ trace[e].holder # None
        /\ trace[e].next = n
\* the lines after k that the assembler folded into the block of k, when the
\* scan went on at line n
IsNoise(k) == StartsWithAny(Upper(Norm(k)), SKIP_PREFIXES) \/ FooterAt(k)
RECURSIVE Folded(_, _)
Folded(k, n) ==
    IF k + 1 >= n THEN <<>>
    ELSE Folded(k, n - 1) \o (IF IsNoise(n - 1) \/ Norm(n - 1) = <<>> THEN <<>> ELSE <<Norm(n - 1)>>)
DateAndHolderRight(k, r) ==
    /\ r.date = IsoOfToken(DateGroup(Norm(k)))
    /\ r.cardholder = normalize_name(Norm(NearestHeader(k)))
    /\ AliasKnown(Lower(Norm(NearestHeader(k)))) => r.cardholder \in Range(CANONICAL_NAMES)

SectionLines(s) == {all_cardholders[s].txs[t].line : t \in DOMAIN all_cardholders[s].txs}

\* C17.  Every returned record carries the canonical name of the nearest
\* cardholder header line before its transaction-start line, and every
\* record is there exactly once: one record per transaction block, in one
\* cardholder section, once in the returned list.
C17_NearestHeaderOnce ==
    /\ \A s1, s2 \in DOMAIN all_cardholders :
          s1 # s2 => SectionLines(s1) \cap SectionLines(s2) = {}
    /\ \A s \in DOMAIN all_cardholders :
          Cardinality(SectionLines(s)) = Len(all_cardholders[s].txs)
    /\ pc = "done" =>
          /\ Len(transactions) = RecordCount
          /\ \A t, u \in DOMAIN transactions :
                transactions[t].line = transactions[u].line => t = u
          /\ \A k \in DOMAIN lines :
                Cardinality(Returned(k)) = IF Took(k, "transaction") THEN 1 ELSE 0
          /\ \A t \in DOMAIN transactions :
                /\ HolderOpenAt(transactions[t].line)
                /\ transactions[t].cardholder
                      = normalize_name(Norm(NearestHeader(transactions[t].line)))

\* a statement of two cardholders was returned with a record for each
C17_Witness ==
    /\ pc = "done"
    /\ \E t, u \in DOMAIN transactions :
          /\ transactions[t].cardholder = CANONICAL_NAMES[1]
          /\ Norm(NearestHeader(transactions[t].line)) = L_HOLDER
          /\ transactions[u].cardholder = CANONICAL_NAMES[2]
          /\ Norm(NearestHeader(transactions[u].line)) = L_HOLDER2

\* C18.  A transaction-start line met before any cardholder header gives no
\* record and opens no section, placeholder or other: the scan passes over
\* it alone.  Nothing of it or of its continuation lines reaches a later
\* record: the first header starts from an empty dict and a cleared skip
\* state, and every returned record starts after a header.
C18_DroppedBeforeHeader ==
    [][pc = "scan" =>
          /\ current_holder = None => all_cardholders = <<>>
          /\ (current_holder = None /\ i <= Len(lines) /\ TxStartAt(i)) =>
                /\ i' \in {i, i + 1}
                /\ current_holder' = None
                /\ all_cardholders' = <<>>
          /\ (current_holder = None /\ current_holder' # None) =>
                /\ skip_mode' = "None"
                /\ all_cardholders' = <<[holder |-> current_holder', txs |-> <<>>]>>
          /\ pc' = "done" =>
                /\ \A t \in DOMAIN transactions' : HolderOpenAt(transactions'[t].line)
                /\ \A c \in cardholders' :
                      \E h \in DOMAIN lines : HeaderAt(h) /\ c = normalize_name(Norm(h))]_vars

\* a transaction and its continuation line came before the first header:
\* they have no record, and the transaction after the header has one
C18_Witness ==
    /\ pc = "done"
    /\ Len(lines) >= 2
    /\ TxStartAt(1) /\ ~HolderOpenAt(1) /\ Returned(1) = {}
    /\ Norm(2) = L_TIP
    /\ \E k \in DOMAIN lines :
          /\ Cardinality(Returned(k)) = 1
          /\ \A t \in Returned(k) :
                /\ transactions[t].description = <<"U","B","E","R">>
                /\ transactions[t].amount = Some(2500)

\* the test of the block assembler that stops it at line k, in the order of
\* its tests; "none" for a line it passes over
StopKind(k) ==
    IF HeaderAt(k) THEN "header"
    ELSE IF TxStartAt(k) THEN "transaction"
    ELSE IF SectionStartAt(k) THEN "section_start"
    ELSE IF SectionEndAt(k) THEN "section_end"
    ELSE "none"
\* the first line after line n that stops the assembler, Len(lines) + 1 when
\* there is none
FirstStopAfter(n) ==
    IF \E k \in (n + 1)..Len(lines) : StopKind(k) # "none"
    THEN CHOOSE k \in (n + 1)..Len(lines) :
             StopKind(k) # "none" /\ \A m \in (n + 1)..(k - 1) : StopKind(m) = "none"
    ELSE Len(lines) + 1
\* the iteration after iteration e of the scan loop is at line k and takes
\* one of the branches
ThenTakes(e, k, branches) ==
    e < Len(trace) => trace[e + 1].line = k /\ trace[e + 1].branch \in branches

LastStayed == trace # <<>> /\ trace[Len(trace)].next = trace[Len(trace)].line

\* C27: the scan loop of extract_amex ends on every document.  Each
\* iteration either advances the index or leaves it and resets skip_mode
\* from a skip state to None; an iteration that left the index is followed
\* by one that advances it; the index never decreases; no line starts two
\* transaction blocks.
C27_ScanTerminates ==
    /\ [][(pc = "scan" /\ i <= Len(lines)) =>
             /\ i' > i \/ (i' = i /\ skip_mode # "None" /\ skip_mode' = "None")
             /\ LastStayed => i' > i]_vars
    /\ [][i' >= i]_vars
    /\ [](\A d, e \in DOMAIN trace :
             (trace[d].branch = "transaction" /\ trace[e].branch = "transaction"
              /\ trace[d].line = trace[e].line) => d = e)
    /\ <>(pc = "done")

\* the scan is over; one iteration reset skip_mode at a section-end marker
\* without advancing and the next advanced; two transaction blocks started,
\* the first one more than one line long
C27_Witness ==
    /\ pc = "done"
    /\ \E e \in 1..(Len(trace) - 1) :
          /\ trace[e].branch = "skip_reset"
          /\ trace[e].next = trace[e].line
          /\ trace[e + 1].line = trace[e].line
          /\ trace[e + 1].next = trace[e].line + 1
    /\ \E d, e \in DOMAIN trace :
          /\ d < e
          /\ trace[d].branch = "transaction" /\ trace[e].branch = "transaction"
          /\ trace[d].next > trace[d].line + 1

(***************************************************************************)
(* Properties of the amount parsers                                        *)
(***************************************************************************)
LastWord(s) == Sub(s, LastWordStart(s, Len(s)), Len(s))
\* w is an amount written fully parenthesized with its currency symbol: ($NUM)
ParenDollar(w) ==
    /\ Len(w) >= 4 /\ w[1] = "(" /\ w[2] = "$" /\ w[Len(w)] = ")"
    /\ NumEnd(w, 3) = Len(w)
\* the magnitude an amount notation writes, in hundredths
Magnitude(w) == DecimalCents(SelectSeq(w, LAMBDA c : IsDigit(c) \/ c = "."))
\* the value a monetary token writes: negative when it carries a minus sign
\* or parentheses
TokenValue(tok) == IF tok[1] \in {"-", "("} THEN 0 - Magnitude(tok) ELSE Magnitude(tok)
\* parse_transaction_line was given a line of its format: date, description,
\* amount notation
SvbFormatLine == SvbMatch(Strip(svb_line), LastWordStart(Strip(svb_line), Len(Strip(svb_line))))

\* C5.  A trailing amount written ($NUM) gives the negative amount -NUM, from
\* extract_amount_and_clean on the text and from parse_transaction_line on a
\* line of its format.
C5_Claimed ==
    /\ (amex_out # None /\ ParenDollar(LastWord(blob))) =>
          amex_out[1].amount = Some(0 - Magnitude(LastWord(blob)))
    /\ (svb_out # None /\ SvbFormatLine /\ ParenDollar(LastWord(svb_line))) =>
          /\ svb_out[1] # None
          /\ svb_out[1][1].amount = 0 - Magnitude(LastWord(svb_line))

\* C6.  extract_amount_and_clean returns, for a text with monetary tokens,
\* the value of the last token and the text without exactly that token; for
\* a text with none, a null amount and the whole text.
BlobTokens == AmountTokenMatches(blob, 1)
C6_Claimed ==
    amex_out # None =>
        IF BlobTokens = <<>>
        THEN amex_out[1].amount = None /\ amex_out[1].description = blob
        ELSE /\ amex_out[1].amount
                  = Some(TokenValue(Sub(blob, LastOf(BlobTokens)[1], LastOf(BlobTokens)[2] - 1)))
             /\ amex_out[1].description
                  = Strip(CollapseSpaces(Sub(blob, 1, LastOf(BlobTokens)[1] - 1)
                                         \o Sub(blob, LastOf(BlobTokens)[2], Len(blob))))

\* C7.  A transaction line whose amount notation does not convert to a
\* number still gives a record: parse_transaction_line returns a record for
\* every line of its format, and extract_amount_and_clean returns the
\* description with a null amount.
C7_Claimed ==
    /\ (svb_out # None /\ SvbFormatLine) => svb_out[1] # None
    /\ (amex_out # None /\ BlobTokens = <<>>) =>
          amex_out[1].amount = None /\ amex_out[1].description = blob

(***************************************************************************)
(* Properties of extract_bradesco and get_cotacao_dolar_ptax               *)
(***************************************************************************)
\* the extraction has ended: it returned, or an exception left it
BrEnded == pc \in {"done", "raised"}
\* line k is a row of the transaction table, and its fields
BrRowAt(k) == LineFields(bradesco_normalize(lines[k])) # None
BrFieldsAt(k) == LineFields(bradesco_normalize(lines[k]))[1]
\* the DD/MM token of row k is not a date of the statement's year
BrDateInvalid(k) ==
    ~ValidDate(year[1], IntOf(Sub(BrFieldsAt(k).ddmm, 4, 5)), IntOf(Sub(BrFieldsAt(k).ddmm, 1, 2)))

\* C8.  A transaction line whose date token is not a calendar date still has
\* a record, and the record's date is the token as written in the line.  For
\* extract_bradesco: once the extraction has ended, every row whose DD/MM
\* token is not a date has a returned record carrying that token.
C8_Claimed ==
    BrEnded =>
        \A k \in DOMAIN lines :
            (BrRowAt(k) /\ BrDateInvalid(k)) =>
                \E t \in DOMAIN transactions :
                    /\ transactions[t].line = k
                    /\ transactions[t].date = BrFieldsAt(k).ddmm

\* C9.  Whatever the lines and whatever the rate service answers, no
\* exception leaves the extraction.
C9_Claimed == pc # "raised"

\* the day count of a date (proleptic Gregorian ordinal)
RECURSIVE DaysBeforeMonth(_, _)
DaysBeforeMonth(y, m) == IF m = 1 THEN 0 ELSE DaysBeforeMonth(y, m - 1) + DaysInMonth(y, m - 1)
Ordinal(date) ==
    date.d + DaysBeforeMonth(date.y, date.m) + 365 * (date.y - 1)
        + ((date.y - 1) \div 4) - ((date.y - 1) \div 100) + ((date.y - 1) \div 400)
\* the date a request names (MM-DD-YYYY)
BcbDate(t) == [y |-> IntOf(Sub(t, 7, 10)), m |-> IntOf(Sub(t, 1, 2)), d |-> IntOf(Sub(t, 4, 5))]
EmptyAnswer(k) == walk[k].ok /\ walk[k].valores = <<>>

LastRecord(recs) == recs[Len(recs)]
\* the BRL value written in row k: its last money token, converted
BrlOfLine(k) == parse_brl_number(BrFieldsAt(k).brl_raw)

\* C11.  When the rate lookup of a row has returned null (the walk ran out
\* of days, or the request failed), the next step emits the row's record
\* with fx_rate null, amount null and amount_brl the BRL value of the line.
C11_NullRateRecord ==
    [][(pc = "returned" /\ fx_result = None) =>
          /\ transactions' = Append(transactions, LastRecord(transactions'))
          /\ LastRecord(transactions').line = txs[tx_n].line
          /\ LastRecord(transactions').fx_rate = None
          /\ LastRecord(transactions').amount = None
          /\ LastRecord(transactions').amount_brl = BrlOfLine(txs[tx_n].line)]_vars

\* after seven empty answers the record of "15/01 UBER 10,00 50,00" was
\* emitted without rate and amount, with its 50,00 reais
C11_Witness ==
    /\ pc = "fx"
    /\ transactions # <<>>
    /\ Len(walk) = WALK_DAYS
    /\ lines[LastRecord(transactions).line] = R_UBER
    /\ LastRecord(transactions).fx_rate = None
    /\ LastRecord(transactions).amount = None
    /\ LastRecord(transactions).amount_brl = Some(5000)

\* C12.  A request of the walk that fails (no 2xx status, a body that is
\* not JSON) counts as "no quote for this date": the lookup goes on with the
\* previous day, so that a quote of an earlier day is still found.
C12_Claimed ==
    [][(pc = "walk" /\ walk' = Answered(FALSE, <<>>)) =>
          /\ pc' = "walk"
          /\ dt' = PrevDay(dt)
          /\ attempt' = attempt + 1]_vars

\* the records already emitted for the date being looked up
EmittedForDate == {k \in DOMAIN transactions : transactions[k].date = data_iso}
\* a lookup is under way or has just ended
InLookup == pc \in {"lookup", "walk", "returned", "raised"}

\* C13.  Within one run of extract_bradesco, once a lookup for a date has
\* completed, with a rate or with null, every later lookup for that date
\* sends no request and returns the same value: records of one date carry
\* one fx_rate.
C13_CachedForTheRun ==
    /\ \A a, b \in DOMAIN transactions :
          transactions[a].date = transactions[b].date =>
              transactions[a].fx_rate = transactions[b].fx_rate
    /\ (InLookup /\ EmittedForDate # {}) =>
          /\ pc \in {"lookup", "returned"}
          /\ walk = <<>>
          /\ pc = "returned" =>
                \A k \in EmittedForDate : fx_result = transactions[k].fx_rate

\* the second row of 15 January got the null of the first one from the cache
C13_Witness ==
    /\ pc = "returned"
    /\ tx_n = 2
    /\ EmittedForDate = {1}
    /\ transactions[1].fx_rate = None
    /\ fx_result = None
    /\ walk = <<>>

\* round(b / r, 2), b in hundredths and r in ten-thousandths
RoundedQuotient(b, r) == RoundDiv(b * 10000, r)

\* C14.  A record whose BRL amount is a number b, zero and negative values
\* included, and whose fx_rate r is present and positive has
\* amount = round(b / r, 2); every other record has amount null.
C14_Claimed ==
    \A k \in DOMAIN transactions :
        IF /\ transactions[k].amount_brl # None
           /\ transactions[k].fx_rate # None
           /\ transactions[k].fx_rate[1] > 0
        THEN transactions[k].amount =
                 Some(RoundedQuotient(transactions[k].amount_brl[1], transactions[k].fx_rate[1]))
        ELSE transactions[k].amount = None

(***************************************************************************)
(* Properties of the name normalizer                                       *)
(***************************************************************************)
CLIFFORD_SOBEL == <<"C","l","i","f","f","o","r","d"," ","S","o","b","e","l">>
\* "C. Sobel", "Sobel, Clifford" and "Clifford Sobel" in any letter case,
\* with any whitespace around and between the words
CliffordSpellings == UNION {Spellings(words) : words \in CliffordForms}
\* the key the name is looked up by, and the key without periods
NameKey(x) == JoinSp(Split(RemoveSuffixes(Lower(Strip(x)), 1)))
KeyNoPeriods(x) == Strip(ReplaceDoubleSpace(ReplaceChar(NameKey(x), ".", <<" ">>)))
\* neither the alias table nor the surname heuristic matches the name
Unmatched(x) ==
    /\ ~AliasKnown(NameKey(x))
    /\ ~AliasKnown(KeyNoPeriods(x))
    /\ Split(NameKey(x)) # <<>> => SurnameMatches(Split(NameKey(x))) = {}

\* C15.  normalize_name returns for every name: each spelling of "C. Sobel",
\* "Sobel, Clifford" and "Clifford Sobel" gives the one canonical string
\* "Clifford Sobel", and a name that neither the alias table nor the surname
\* heuristic matches is returned in title case.
C15_NormalizeName ==
    name_op.op = "normalize_name" =>
        /\ Len(name_op.ret) = 1
        /\ name_arg \in CliffordSpellings => name_op.ret[1] = CLIFFORD_SOBEL
        /\ Unmatched(name_arg) => name_op.ret[1] = Title(name_arg)

\* " SOBEL,  CLIFFORD" was normalized to "Clifford Sobel"
C15_Witness ==
    /\ name_op.op = "normalize_name"
    /\ name_arg = <<" ">> \o Upper(W_SOBEL_COMMA) \o <<" ", " ">> \o Upper(W_CLIFFORD)
    /\ name_op.ret = <<CLIFFORD_SOBEL>>

\* the key add_alias writes
AliasKey(alias) == Lower(Strip(alias))

\* C20.  No operation of the module modifies the alias table at run time,
\* so normalize_name returns for an input the result of its first call at
\* every later point, whatever operations ran in between.
C20_Claimed ==
    /\ alias_added = {}
    /\ name_op.op = "normalize_name" => name_op.ret[1] = name_first[2]

\* C20, amended.  normalize_name and get_canonical_names never modify the
\* alias table; add_alias is the only operation that does, only for a
\* canonical name, and what it writes is the one entry
\* lower(strip(alias)) -> canonical; normalize_name returns for an input
\* the result of its first call whenever the table holds the entries it
\* held at that call.
C20_OnlyAddAliasWrites ==
    [][/\ alias_added' # alias_added =>
              /\ name_op'.op = "add_alias"
              /\ name_op'.ret = <<TRUE>>
              /\ name_op'.canonical \in Range(CANONICAL_NAMES)
              /\ \A e \in alias_added' \ alias_added :
                    e = <<AliasKey(name_op'.alias), name_op'.canonical>>
              /\ \A e \in alias_added \ alias_added' : e[1] = AliasKey(name_op'.alias)
       /\ name_op'.op \in {"normalize_name", "get_canonical_names"} =>
              alias_added' = alias_added
       /\ (name_op'.op = "normalize_name" /\ name_first # <<>>
             /\ alias_added = name_first[1]) =>
              name_op'.ret[1] = name_first[2]]_vars

\* "c. sobel" was normalized to "Clifford Sobel", add_alias(" C. Sobel ",
\* "Scott Sobel") ran, and "c. sobel" is now normalized to "Scott Sobel"
C20_Witness ==
    /\ name_arg = PROBE_C_SOBEL
    /\ name_op.op = "normalize_name"
    /\ name_first = <<{}, CLIFFORD_SOBEL>>
    /\ alias_added = {<<PROBE_C_SOBEL, CANONICAL_NAMES[1]>>}
    /\ name_op.ret = <<CANONICAL_NAMES[1]>>

(***************************************************************************)
(* Properties of the returned cardholders                                  *)
(***************************************************************************)
\* the cardholder names written in the Bradesco document ("Nome:" lines)
BrNamesObserved ==
    {NomeOf(bradesco_normalize(lines[n]))[1] :
        n \in {m \in DOMAIN lines : NomeOf(bradesco_normalize(lines[m])) # None}}

\* C16.  The returned cardholders list has no duplicates, each of its
\* elements is the canonical name (normalize_name) of a cardholder observed
\* in the document, and the cardholder of every returned transaction is an
\* element of the list.  Stated for extract_bradesco.
C16_Claimed ==
    pc = "done" =>
        /\ \A a, b \in DOMAIN cardholders : cardholders[a] = cardholders[b] => a = b
        /\ \A a \in DOMAIN cardholders :
              \E h \in BrNamesObserved : cardholders[a] = normalize_name(h)
        /\ \A t \in DOMAIN transactions :
              \E a \in DOMAIN cardholders : transactions[t].cardholder = cardholders[a]

(***************************************************************************)
(* Properties of extract_svb                                               *)
(***************************************************************************)
\* "Account <digits>" or "All Transactions"
IsPlaceholder(holder_name) ==
    \/ holder_name = ALL_TRANSACTIONS
    \/ /\ Len(holder_name) > Len(ACCOUNT_)
       /\ Sub(holder_name, 1, Len(ACCOUNT_)) = ACCOUNT_
       /\ \A k \in (Len(ACCOUNT_) + 1)..Len(holder_name) : IsDigit(holder_name[k])
\* the document has a "<name> TOTAL FOR ACCOUNT ENDING IN <digits>" line
Sectioned(ls) == \E k \in DOMAIN ls : HolderMatchAt(ls[k], 1) # 0

\* C19: extract_svb gives a returned transaction a placeholder holder name
\* ("Account <digits>" or "All Transactions") only when no line of the
\* document is a "<name> TOTAL FOR ACCOUNT ENDING IN <digits>" line.
C19_Claimed ==
    (pc = "done" /\ Sectioned(lines)) =>
        \A t \in DOMAIN transactions : ~IsPlaceholder(transactions[t].cardholder)

(***************************************************************************)
(* Properties of the requests to the rate service                          *)
(***************************************************************************)
\* the distinct dates of the first n parsed rows
DatesUpTo(n) == {txs[k].date : k \in 1..(IF n <= Len(txs) THEN n ELSE Len(txs))}
DistinctDates == DatesUpTo(Len(txs))

\* C24 as stated: in one extract_bradesco run the number of requests sent to
\* the rate service is at most the number of distinct transaction dates of
\* the statement.
C24_Claimed == requests <= Cardinality(DistinctDates)

\* C24, amended: in one extract_bradesco run the number of requests sent to
\* the rate service is at most WALK_DAYS (7) times the number of distinct
\* transaction dates of the statement, and at every point of the run at
\* most WALK_DAYS times the number of distinct dates of the rows reached.
C24_RequestsBounded ==
    /\ requests <= WALK_DAYS * Cardinality(DistinctDates)
    /\ requests <= WALK_DAYS * Cardinality(DatesUpTo(tx_n))

\* a run that returned: two rows of one date, the first lookup walked back
\* over WALK_DAYS empty answers, the second row was served from the cache
C24_Witness ==
    /\ pc = "done"
    /\ Len(txs) = 2
    /\ Cardinality(DistinctDates) = 1
    /\ requests = WALK_DAYS
    /\ Len(transactions) = 2
    /\ transactions[2].fx_rate = None

(***************************************************************************)
(* Properties of the cache across invocations                              *)
(***************************************************************************)
\* C21: the cache of extract_bradesco belongs to one invocation: whatever
\* the interleaving of two invocations, every cache entry an invocation
\* reads was written by that invocation, and an invocation emits a null
\* rate for a date only when its own lookup of that date ended with None.
C21_CachePerInvocation ==
    \A r \in DOMAIN runs :
        /\ runs[r].reads \subseteq runs[r].wrote
        /\ \A k \in DOMAIN runs[r].rates :
              runs[r].rates[k] = None => runs[r].dates[k] \in runs[r].failed

\* invocation 1 had its lookup of a date fail and is in the middle of its
\* next lookup, while invocation 2 has got a rate for the same date, read
\* it again from its cache and returned
C21_Witness ==
    /\ pc = "runs"
    /\ runs[1].at = "lookup"
    /\ runs[1].rates = <<None>>
    /\ runs[1].dates[1] = ISO_JAN
    /\ runs[2].at = "done"
    /\ runs[2].dates = <<ISO_JAN, ISO_JAN>>
    /\ runs[2].rates = <<Some(RATE), Some(RATE)>>
    /\ runs[2].reads = {<<ISO_JAN, Some(RATE)>>}
    /\ <<ISO_JAN, None>> \in fx_caches[FxCacheOf(1)]

(***************************************************************************)
(* Properties of is_cardholder_header                                      *)
(***************************************************************************)
HeaderMarkers == {CARD_ENDING, ACCOUNT_ENDING, CLOSING_DATE}
\* line k, normalized, contains one of the markers, whatever the case
MarkerIn(k) == \E marker \in HeaderMarkers : Contains(Upper(Norm(k)), marker)
\* the normalized line n is non-empty, upper-case and made of letters,
\* spaces, apostrophes, hyphens and periods
HeaderShape(n) ==
    /\ Norm(n) # <<>>
    /\ Norm(n) = Upper(Norm(n))
    /\ \A k \in DOMAIN Norm(n) : IsLetter(Norm(n)[k]) \/ Norm(n)[k] \in {" ", "'", "-", "."}

\* C23 as stated: is_cardholder_header(lines, i) accepts line i exactly when
\* the normalized line is non-empty, upper-case, made of letters, spaces,
\* apostrophes, hyphens and periods, and one of the existing lines i+1, i+2,
\* i+3 contains by itself one of the markers.
C23_Claimed ==
    (pc = "header" /\ header_out # None) =>
        (header_out[1] # None <=>
            /\ HeaderShape(i)
            /\ \E k \in 1..3 : i + k <= Len(lines) /\ MarkerIn(i + k))

(***************************************************************************)
(* Properties of parse_brl_number                                          *)
(***************************************************************************)
\* the digits of the token, read as one number: its value in hundredths
BrlDigits(tok) == SelectSeq(tok, LAMBDA c : IsDigit(c))
BrlOpen(tok) == tok[1] = "("
BrlClose(tok) == tok[Len(tok)] = ")"
BrlMinus(tok) == Contains(tok, <<"-">>)

\* C25: parse_brl_number maps a BRL-formatted token to its value, the "."
\* separators dropped and "," read as the decimal point; the value is
\* negated when the token is enclosed in parentheses or starts with "-",
\* once even when it is both; a token with an unmatched parenthesis gives
\* None.
C25_ParseBrlNumber ==
    (pc = "brl" /\ brl_out # None) =>
        brl_out[1] =
            IF BrlOpen(brl_tok) # BrlClose(brl_tok) THEN None
            ELSE IF BrlOpen(brl_tok) \/ BrlMinus(brl_tok)
                 THEN Some(0 - IntOf(BrlDigits(brl_tok)))
            ELSE Some(IntOf(BrlDigits(brl_tok)))

\* "(-1.234,56)" was parsed: parenthesized and minus-prefixed, with a
\* thousands separator; the value is -1234.56
C25_Witness ==
    /\ pc = "brl"
    /\ brl_tok = <<"(","-","1",".","2","3","4",",","5","6",")">>
    /\ brl_out = Some(Some(0 - 123456))

(***************************************************************************)
(* Properties of the surname heuristic of normalize_name                   *)
(***************************************************************************)
\* lines 129-138: the cleaned name
Cleaned(name) == JoinSp(Split(RemoveSuffixes(Lower(Strip(name)), 1)))
\* one of the two alias lookups of lines 140-147 matches
AliasMatches(name) ==
    \/ AliasKnown(Cleaned(name))
    \/ AliasKnown(Strip(ReplaceDoubleSpace(ReplaceChar(Cleaned(name), ".", <<" ">>))))
\* the surname of a canonical name: its last token
SurnameOf(canonical) == Split(canonical)[Len(Split(canonical))]
\* the canonical names whose surname is the last token of the name and whose
\* first name starts with the leading character of its first token
Qualifying(parts) ==
    {k \in DOMAIN CANONICAL_NAMES :
        /\ parts # <<>>
        /\ parts[Len(parts)] = Lower(SurnameOf(CANONICAL_NAMES[k]))
        /\ parts[1][1] = Lower(CANONICAL_NAMES[k])[1]}
ReturnedName == name_op.ret[1]

\* C26 as stated: when neither alias lookup matches, normalize_name returns
\* the first canonical name, in CANONICAL_NAMES order, whose surname is the
\* last token of the input and whose first name starts with the leading
\* character of the input's first token, and the title-cased input when no
\* canonical name qualifies; an alias match takes precedence.
C26_Claimed ==
    (pc = "names" /\ name_op.op = "normalize_name" /\ name_arg # <<>>) =>
        IF AliasKnown(Cleaned(name_arg)) THEN ReturnedName = AliasGet(Cleaned(name_arg))
        ELSE IF AliasMatches(name_arg) THEN ReturnedName \in Range(CANONICAL_NAMES)
        ELSE IF Qualifying(Split(Cleaned(name_arg))) = {} THEN ReturnedName = Title(name_arg)
        ELSE ReturnedName =
                CANONICAL_NAMES[CHOOSE k \in Qualifying(Split(Cleaned(name_arg))) :
                                    \A j \in Qualifying(Split(Cleaned(name_arg))) : k <= j]

(***************************************************************************)
(* Properties of add_alias                                                 *)
(***************************************************************************)
\* the keys of the entries an add_alias call can touch
AliasKeys(before, after) ==
    {e[1] : e \in before \cup after} \cup {AliasKey(alias) : alias \in AliasInputs}
\* the table as a function, given the entries add_alias stored: None for a
\* missing key
AliasEntry(added, key) ==
    IF \E p \in added : p[1] = key THEN Some((CHOOSE p \in added : p[1] = key)[2])
    ELSE IF \E p \in NAME_ALIASES : p[1] = key
         THEN Some((CHOOSE p \in NAME_ALIASES : p[1] = key)[2])
    ELSE None

\* C29: every value stored in NAME_ALIASES is a canonical name, whatever
\* add_alias calls were made; add_alias(a, c) with c outside CANONICAL_NAMES
\* returns False and leaves the table as it was; with c in CANONICAL_NAMES
\* it returns True, the entry of lower(strip(a)) becomes c and no other
\* entry changes.
C29_AddAlias ==
    /\ [](\A e \in NAME_ALIASES \cup alias_added : e[2] \in Range(CANONICAL_NAMES))
    /\ [][name_op'.op = "add_alias" =>
            IF name_op'.canonical \in Range(CANONICAL_NAMES)
            THEN /\ name_op'.ret = <<TRUE>>
                 /\ AliasEntry(alias_added', AliasKey(name_op'.alias)) = Some(name_op'.canonical)
                 /\ \A key \in AliasKeys(alias_added, alias_added')
                                     \ {AliasKey(name_op'.alias)} :
                        AliasEntry(alias_added', key) = AliasEntry(alias_added, key)
            ELSE /\ name_op'.ret = <<FALSE>>
                 /\ \A key \in AliasKeys(alias_added, alias_added') :
                        AliasEntry(alias_added', key) = AliasEntry(alias_added, key)]_vars

\* add_alias(" C. Sobel ", "Scott Sobel") and add_alias("ZED Q", "Clifford
\* Sobel") returned True, then add_alias with "Nobody" returned False; the
\* table holds the two entries
C29_Witness ==
    /\ pc = "module"
    /\ name_op.op = "add_alias"
    /\ name_op.canonical = NOBODY
    /\ name_op.ret = <<FALSE>>
    /\ alias_added = {<<PROBE_C_SOBEL, CANONICAL_NAMES[1]>>, <<PROBE_ZED, CANONICAL_NAMES[2]>>}

\* C30 as stated: once add_alias(a, c) has returned True, normalize_name(a)
\* returns c, also for an alias with repeated inner whitespace or a
\* trailing card-type suffix.
C30_Claimed ==
    (pc = "module" /\ name_op.op = "normalize_name" /\ name_arg \in AliasInputs) =>
        \A e \in alias_added : e[1] = AliasKey(name_arg) => name_op.ret = <<e[2]>>

(***************************************************************************)
(* Properties of the attribution of extract_svb                            *)
(***************************************************************************)
\* line k is read as a transaction by the loop
SvbTxLine(k) == parse_transaction_line(lines[k]) # None
\* line k is read as a cardholder total line by the loop
SvbTotalLine(k) == ~SvbTxLine(k) /\ HolderMatchAt(lines[k], 1) # 0
\* the total lines after line k
TotalsAfter(k) == {j \in DOMAIN lines : j > k /\ SvbTotalLine(j)}
\* the holder named by the first total line after line k; None without one
FollowingHolder(k) ==
    IF TotalsAfter(k) = {} THEN None
    ELSE Some(HolderGroup(lines[CHOOSE j \in TotalsAfter(k) : \A m \in TotalsAfter(k) : j <= m],
                          HolderMatchAt(lines[CHOOSE j \in TotalsAfter(k) :
                                                  \A m \in TotalsAfter(k) : j <= m], 1)))
\* the transaction of line k as a record of holder h
Attributed(k, h) ==
    [date |-> parse_transaction_line(lines[k])[1].date,
     description |-> parse_transaction_line(lines[k])[1].description,
     amount |-> parse_transaction_line(lines[k])[1].amount,
     cardholder |-> h]
\* the transaction lines whose description has no "PAYMENT - THANK YOU"
KeptLines ==
    {k \in DOMAIN lines : SvbTxLine(k) /\ ~IsPayment(parse_transaction_line(lines[k])[1])}
\* record t of the output, without the fields of the enrichment
ReturnedRecord(t) ==
    [date |-> transactions[t].date, description |-> transactions[t].description,
     amount |-> transactions[t].amount, cardholder |-> transactions[t].cardholder]

HolderOf(k) ==
    IF FollowingHolder(k) # None THEN FollowingHolder(k)[1]
    ELSE HolderName(AcctMatch(lines, 1))

====
